---- MODULE Spec2Model ----
(***************************************************************************)
(* Friendly iframe embed (friendly-iframe-embed.js).                       *)
(*                                                                         *)
(* The model follows the browser's event loop: the body of                 *)
(* installFriendlyIframeEmbed runs to completion (pc walks through its     *)
(* statements, nothing else interleaves), promise reactions are jobs of a  *)
(* FIFO microtask queue that drains before any other task, and timer       *)
(* ticks, load/error events and parser progress are tasks that run only    *)
(* when no script is running and the microtask queue is empty.             *)
(***************************************************************************)
EXTENDS Integers, Sequences, FiniteSets

\* Bounds of the model.
MaxChildren == 1
MaxHandlers == 2
MaxSetCalls == 3

\* The extension ids a spec may list.
ExtensionIdLists == { <<>>, <<"amp-a">>, <<"amp-b", "amp-a">> }

Handlers == 1..MaxHandlers

VARIABLES
  srcdocSupported,   \* module-level cache: "undefined", "true" or "false"
  browserSrcdoc,     \* 'srcdoc' in HTMLIFrameElement.prototype
  detections,        \* how often line 72 has evaluated that expression
  installs,          \* number of installFriendlyIframeEmbed calls so far
  pc,                \* position in the body of installFriendlyIframeEmbed
  spec,              \* the FriendlyIframeSpec and opt_preinstallCallback
  loadCalls,         \* ids passed to extensions.loadExtension, in call order
  preload,           \* outcome of the pre-load promises: "none", "pending", "failed"
  iframe,            \* the iframe element
  childDoc,          \* iframe.contentWindow.document
  events,            \* load/error event fired by the iframe and by its window
  loadedPromise,     \* state and target of loadPromise(...)
  interval,          \* the polling timer: "none", "active", "cleared"
  readyPromise,      \* "none", "pending", "resolved"
  readyBy,           \* what resolved readyPromise first
  installPromise,    \* the promise returned to the caller
  jobs,              \* microtask queue
  thenPc,            \* position in the readyPromise.then callback
  asyncErrors,       \* number of rethrowAsync calls
  installCalls,      \* arguments of installExtensionsInChildWindow calls
  embed,             \* the FriendlyIframeEmbed, once constructed
  setLog,            \* values passed to setVisible_, in call order
  notifLog,          \* per handler: the values it was called with
  subAt,             \* per handler: Len(setLog) when it subscribed, or -1
  unsubAt,           \* per handler: Len(setLog) when it unsubscribed, or -1
  subOrder,          \* handlers in the order of their onVisibilityChanged calls
  fireOrder,         \* handlers called by the last fire, in call order
  tracker,           \* child windows registered with resources / services
  mergedHtml,        \* the string mergeHtml returned, <<>> before the call
  service,           \* the AmpRecaptchaService instance
  frames,            \* the bootstrap iframes initialize_ has asked for, oldest first
  calls,             \* the calls made on the service and what they returned
  deferreds,         \* per recaptchaApiReady_ Deferred, oldest first: is it resolved
  executes,          \* the promises execute() handed out, oldest first
  postJobs,          \* queued reactions of recaptchaApiReady_.promise, as indexes of executes
  posted,            \* the amp-recaptcha-action messages posted, oldest first
  thrown,            \* exceptions thrown by reactions and message handlers
  observer,          \* the HiddenAttributeMutationObserver instance
  unregisterCalls,   \* the calls of functions register() returned, oldest first
  passRuns           \* the runs of the mutation pass, oldest first

processVars == <<srcdocSupported, browserSrcdoc, detections, installs>>
callVars == <<pc, spec, loadCalls, preload>>
domVars == <<iframe, childDoc, events>>
waitVars == <<loadedPromise, interval, readyPromise, readyBy>>
thenVars == <<installPromise, jobs, thenPc, asyncErrors, installCalls>>
embedVars == <<embed, setLog, notifLog, subAt, unsubAt, subOrder, fireOrder, tracker>>
serviceVars == <<service, frames, calls, deferreds, executes, postJobs, posted, thrown>>
observerVars == <<observer, unregisterCalls, passRuns>>
moduleVars == <<serviceVars, observerVars>>
outerVars == <<mergedHtml, moduleVars>>
installVars == <<mergedHtml, processVars, callVars, domVars, waitVars, thenVars, embedVars>>
vars == <<processVars, callVars, domVars, waitVars, thenVars, embedVars, outerVars>>

(***************************************************************************)
(* JavaScript values, as far as isIframeReady needs them: a && b yields a  *)
(* when a is falsy and b otherwise, !!x is ToBoolean(x).                    *)
(***************************************************************************)
JsNull == [t |-> "null"]
JsObject(name) == [t |-> "object", ref |-> name]
JsBoolean(b) == [t |-> "boolean", v |-> b]
ToBoolean(x) == CASE x.t = "null" -> FALSE
                  [] x.t = "boolean" -> x.v
                  [] OTHER -> TRUE
JsAnd(a, b) == IF ToBoolean(a) THEN b ELSE a

\* iframe.contentWindow: null until the iframe is in a document.
contentWindow(f) == IF f.attached THEN JsObject("contentWindow") ELSE JsNull
\* childDoc.body and childDoc.body.firstChild.
body(d) == IF d.hasBody THEN JsObject("body") ELSE JsNull
firstChild(d) == IF d.nChildren > 0 THEN JsObject("node") ELSE JsNull

\* document-ready.js: the ready-state is past "loading".
isDocumentReady(d) == d.readyState # "loading"

\* Faulty variant: the body's first child is not looked at.
isIframeReady_NoFirstChild(f, d) ==
  LET doc == JsAnd(contentWindow(f), JsObject("document"))
  IN ToBoolean(JsAnd(JsAnd(doc, JsBoolean(isDocumentReady(d))), body(d)))

isIframeReady(f, d) ==
  LET doc == JsAnd(contentWindow(f), JsObject("document"))
  IN ToBoolean(JsAnd(JsAnd(JsAnd(doc, JsBoolean(isDocumentReady(d))), body(d)),
                     firstChild(d)))

\* Faulty variant: the detection is repeated by every call, the memo is not read.
isSrcdocSupported_NoMemo == browserSrcdoc

\* isSrcdocSupported(): the value returned; the memo is written by Inject.
isSrcdocSupported ==
  IF srcdocSupported = "undefined" THEN browserSrcdoc ELSE srcdocSupported = "true"

getFriendlyIframeEmbedOptional(f) == f.embedProp

NoEmbed == [exists |-> FALSE, visible |-> FALSE, handlers |-> <<>>,
            renderStart |-> 0, destroyed |-> FALSE, loadedPromise_ |-> "none"]
BlankDoc == [readyState |-> "loading", hasBody |-> FALSE, nChildren |-> 0]
Windows == {"child", "other"}

(***************************************************************************)
(* Strings are sequences of one-character strings. toUpperCase follows     *)
(* the full Unicode case mapping, under which one character can become     *)
(* two: U+00DF (sharp s) becomes "SS".                                      *)
(***************************************************************************)
MaxFragments == 4

SharpS == "U+00DF"
LowerCase == <<"a", "b", "c", "d", "e", "f", "g", "h", "i", "j", "k", "l", "m", "n", "o", "p", "q", "r", "s", "t", "u", "v", "w", "x", "y", "z">>
UpperCase == <<"A", "B", "C", "D", "E", "F", "G", "H", "I", "J", "K", "L", "M", "N", "O", "P", "Q", "R", "S", "T", "U", "V", "W", "X", "Y", "Z">>

Upper(c) ==
  IF c = SharpS THEN <<"S", "S">>
  ELSE IF \E i \in DOMAIN LowerCase : LowerCase[i] = c
       THEN << UpperCase[CHOOSE i \in DOMAIN LowerCase : LowerCase[i] = c] >>
       ELSE <<c>>

RECURSIVE toUpperCase(_)
toUpperCase(str) ==
  IF str = <<>> THEN <<>> ELSE Upper(Head(str)) \o toUpperCase(Tail(str))

Min(S) == CHOOSE x \in S : \A y \in S : x <= y

\* String.prototype.indexOf, zero-based, -1 when there is no match.
indexOf(str, searchString, position) ==
  LET hits == { i \in position..(Len(str) - Len(searchString)) :
                  SubSeq(str, i + 1, i + Len(searchString)) = searchString }
  IN  IF hits = {} THEN -1 ELSE Min(hits)

\* String.prototype.substring for 0 <= start <= end; both clamp to the length.
substring(str, start, end) ==
  SubSeq(str, Min({start, Len(str)}) + 1, Min({end, Len(str)}))

\* Array.prototype.join('').
RECURSIVE join(_)
join(result) ==
  IF result = <<>> THEN <<>> ELSE Head(result) \o join(Tail(result))

\* dom.js: the characters & < > " ' become entities.
escapeChar(c) ==
  CASE c = "&" -> <<"&", "a", "m", "p", ";">>
    [] c = "<" -> <<"&", "l", "t", ";">>
    [] c = ">" -> <<"&", "g", "t", ";">>
    [] c = "\"" -> <<"&", "q", "u", "o", "t", ";">>
    [] c = "'" -> <<"&", "#", "x", "2", "7", ";">>
    [] OTHER -> <<c>>

RECURSIVE escapeHtml(_)
escapeHtml(str) ==
  IF str = <<>> THEN <<>> ELSE escapeChar(Head(str)) \o escapeHtml(Tail(str))

TagHead == <<"<", "H", "E", "A", "D">>
TagBody == <<"<", "B", "O", "D", "Y">>
TagHtml == <<"<", "H", "T", "M", "L">>
TagEnd == <<">">>
BaseOpen == <<"<", "b", "a", "s", "e", " ", "h", "r", "e", "f", "=", "\"">>
BaseClose == <<"\"", ">">>
LinkOpen == <<"<", "l", "i", "n", "k", " ", "h", "r", "e", "f", "=", "\"">>
LinkClose == <<"\"", " ", "r", "e", "l", "=", "\"", "s", "t", "y", "l", "e", "s", "h", "e", "e", "t", "\"", " ", "t", "y", "p", "e", "=", "\"", "t", "e", "x", "t", "/", "c", "s", "s", "\"", ">">>

\* Lines 225-238: the insertion point, found in the upper-cased html.
insertionPoint(originalHtmlUp) ==
  LET head == indexOf(originalHtmlUp, TagHead, 0)
      ip1 == IF head # -1 THEN indexOf(originalHtmlUp, TagEnd, head + 1) + 1 ELSE head
      ip2 == IF ip1 = -1 THEN indexOf(originalHtmlUp, TagBody, 0) ELSE ip1
      html == indexOf(originalHtmlUp, TagHtml, 0)
  IN  IF ip2 # -1 THEN ip2
      ELSE IF html # -1 THEN indexOf(originalHtmlUp, TagEnd, html + 1) + 1 ELSE html

\* Line 248.
baseTag(url) == BaseOpen \o escapeHtml(url) \o BaseClose

\* Faulty variant: the links come out last font first.
RECURSIVE fontLinks_Reversed(_)
fontLinks_Reversed(fonts) ==
  IF fonts = <<>> THEN <<>>
  ELSE fontLinks_Reversed(Tail(fonts)) \o << LinkOpen \o escapeHtml(Head(fonts)) \o LinkClose >>

\* Lines 252-255: one link per font, in the order of spec.fonts.
RECURSIVE fontLinks(_)
fontLinks(fonts) ==
  IF fonts = <<>> THEN <<>>
  ELSE << LinkOpen \o escapeHtml(Head(fonts)) \o LinkClose >> \o fontLinks(Tail(fonts))

\* Faulty variant: with no insertion point the original html goes first.
mergeHtml_OriginalFirst(sp) ==
  LET originalHtml == sp.html
      ip == insertionPoint(toUpperCase(originalHtml))
      links == IF sp.hasFonts THEN fontLinks(sp.fonts) ELSE <<>>
  IN  IF ip > 0
      THEN join(<<substring(originalHtml, 0, ip)>> \o <<baseTag(sp.url)>> \o links
                \o <<substring(originalHtml, ip, Len(originalHtml))>>)
      ELSE join(<<originalHtml>> \o <<baseTag(sp.url)>> \o links)

\* Faulty variant: the pieces are cut from the upper-cased html.
mergeHtml_FromUpperCase(sp) ==
  LET originalHtmlUp == toUpperCase(sp.html)
      ip == insertionPoint(originalHtmlUp)
      links == IF sp.hasFonts THEN fontLinks(sp.fonts) ELSE <<>>
  IN  IF ip > 0
      THEN join(<<substring(originalHtmlUp, 0, ip)>> \o <<baseTag(sp.url)>> \o links
                \o <<substring(originalHtmlUp, ip, Len(originalHtmlUp))>>)
      ELSE join(<<baseTag(sp.url)>> \o links \o <<originalHtmlUp>>)

\* Lines 221-266.
mergeHtml(sp) ==
  LET originalHtml == sp.html
      originalHtmlUp == toUpperCase(originalHtml)
      ip == insertionPoint(originalHtmlUp)
      preambule == IF ip > 0 THEN <<substring(originalHtml, 0, ip)>> ELSE <<>>
      links == IF sp.hasFonts THEN fontLinks(sp.fonts) ELSE <<>>
      postambule == IF ip > 0
                    THEN <<substring(originalHtml, ip, Len(originalHtml))>>
                    ELSE <<originalHtml>>
  IN  join(preambule \o <<baseTag(sp.url)>> \o links \o postambule)

\* Lines 274-276.
mergeHtmlForTesting(sp) == mergeHtml(sp)

\* The documents: up to MaxFragments pieces, tags in mixed case.
Fragments == { <<"<", "h", "E", "a", "d">>, <<"<", "B", "o", "d", "y">>, <<"<", "h", "t", "m", "l">>, <<">">>, <<SharpS>>, <<"x">> }

RECURSIVE Htmls(_)
Htmls(n) ==
  IF n = 0 THEN { <<>> }
  ELSE Htmls(n - 1) \cup { h \o f : h \in Htmls(n - 1), f \in Fragments }

Urls == { <<"u">>, <<"a", "&", "b">> }
FontA == <<"f">>
FontB == <<"g", "&", "h">>
FontLists == { [hasFonts |-> FALSE, fonts |-> <<>>], [hasFonts |-> TRUE, fonts |-> <<>>],
               [hasFonts |-> TRUE, fonts |-> <<FontA>>],
               [hasFonts |-> TRUE, fonts |-> <<FontB, FontA>>] }
Docs == { [html |-> h, url |-> u, hasFonts |-> f.hasFonts, fonts |-> f.fonts] :
            h \in Htmls(MaxFragments), u \in Urls, f \in FontLists }

NoDoc == [html |-> <<>>, url |-> <<>>, hasFonts |-> FALSE, fonts |-> <<>>]
HeadDoc == [html |-> <<"<", "h", "E", "a", "d", ">", "x">>, url |-> <<"u">>, hasFonts |-> FALSE, fonts |-> <<>>]
BareDoc == [html |-> <<"x">>, url |-> <<"a", "&", "b">>, hasFonts |-> TRUE, fonts |-> <<FontA>>]
InstallDocs == { HeadDoc, BareDoc }

\* Lines 32-48: the fields of FriendlyIframeSpec the module reads.
FriendlyIframeSpec(hasIds, ids, hook, doc) ==
  [hasExtensionIds |-> hasIds, extensionIds |-> ids, hook |-> hook,
   html |-> doc.html, url |-> doc.url, hasFonts |-> doc.hasFonts, fonts |-> doc.fonts]

\* The resource ids of the elements that call execute.
ResourceIds == {"r1", "r2"}

\* amp-recaptcha-service.js, lines 64-90: the service as constructed. A null
\* field holds "null"; an iframe and its load promise are named by the
\* iframe's index in frames.
NewService ==
  [sitekey_ |-> "null", iframe_ |-> 0, iframeLoadPromise_ |-> 0,
   registeredElementCount_ |-> 0, recaptchaApiReady_ |-> 1, unlisteners_ |-> 0,
   executeMap_ |-> [id \in ResourceIds |-> 0]]

\* hidden-attribute-mutation-observer.js, lines 34-49: the observer as
\* constructed, in a window that has MutationObserver or has not.
\* unregisterFns holds the callbacks for which register has returned an
\* unregister function.
NewObserver(winMutationObserver) ==
  [winMutationObserver |-> winMutationObserver, callbacks_ |-> <<>>,
   mutationObserver_ |-> "null", mutationPass_ |-> "null", unregisterFns |-> {}]

\* The two services before any call.
ServiceInit ==
  /\ service = NewService
  /\ frames = <<>>
  /\ calls = <<>>
  /\ deferreds = <<FALSE>>
  /\ executes = <<>>
  /\ postJobs = <<>>
  /\ posted = <<>>
  /\ thrown = 0

ObserverQuiet ==
  /\ unregisterCalls = <<>>
  /\ passRuns = <<>>

ModulesInit ==
  /\ ServiceInit
  /\ observer = NewObserver(TRUE)
  /\ ObserverQuiet


\* The module before installFriendlyIframeEmbed is called.
FrameInit ==
  /\ srcdocSupported = "undefined"
  /\ browserSrcdoc \in BOOLEAN
  /\ detections = 0
  /\ installs = 0
  /\ pc = "idle"
  /\ loadCalls = <<>>
  /\ preload = "none"
  /\ iframe = [visibility |-> "", referrerpolicy |-> "", onload |-> FALSE,
               srcdoc |-> FALSE, src |-> "", attached |-> FALSE, appended |-> 0,
               readyState |-> "", embedProp |-> "null"]
  /\ childDoc = BlankDoc
  /\ events = [iframe |-> "none", win |-> "none"]
  /\ loadedPromise = [state |-> "none", target |-> "none", caught |-> FALSE]
  /\ interval = "none"
  /\ readyPromise = "none"
  /\ readyBy = "none"
  /\ installPromise = "none"
  /\ jobs = <<>>
  /\ thenPc = "none"
  /\ asyncErrors = 0
  /\ installCalls = <<>>
  /\ embed = NoEmbed
  /\ setLog = <<>>
  /\ notifLog = [h \in Handlers |-> <<>>]
  /\ subAt = [h \in Handlers |-> -1]
  /\ unsubAt = [h \in Handlers |-> -1]
  /\ subOrder = <<>>
  /\ fireOrder = <<>>
  /\ tracker = [resources |-> {"other"}, services |-> {"other"}]

Init ==
  /\ FrameInit
  /\ spec = FriendlyIframeSpec(FALSE, <<>>, FALSE, NoDoc)
  /\ mergedHtml = <<>>
  /\ ModulesInit

\* setSrcdocSupportedForTesting(val), between installs.
setSrcdocSupportedForTesting(val) ==
  /\ pc = "idle"
  /\ srcdocSupported' = val
  /\ UNCHANGED <<outerVars, browserSrcdoc, detections, installs, callVars, domVars, waitVars, thenVars, embedVars>>

(***************************************************************************)
(* installFriendlyIframeEmbed, statement by statement.                     *)
(***************************************************************************)
\* Faulty variant: the iframe is not hidden.
Install_NoHide(hasIds, ids, hook) ==
  /\ pc = "idle"
  /\ \E doc \in InstallDocs : spec' = FriendlyIframeSpec(hasIds, ids, hook, doc)
  /\ iframe' = [iframe EXCEPT !.referrerpolicy = "unsafe-url"]
  /\ pc' = "preload"
  /\ installs' = installs + 1
  /\ UNCHANGED <<outerVars, srcdocSupported, browserSrcdoc, detections, loadCalls, preload,
                 childDoc, events, waitVars, thenVars, embedVars>>

\* Lines 113-121: the call; the iframe is hidden and gets its referrer policy.
Install(hasIds, ids, hook) ==
  /\ pc = "idle"
  /\ \E doc \in InstallDocs : spec' = FriendlyIframeSpec(hasIds, ids, hook, doc)
  /\ iframe' = [iframe EXCEPT !.visibility = "hidden", !.referrerpolicy = "unsafe-url"]
  /\ pc' = "preload"
  /\ installs' = installs + 1
  /\ UNCHANGED <<outerVars, srcdocSupported, browserSrcdoc, detections, loadCalls, preload,
                 childDoc, events, waitVars, thenVars, embedVars>>

\* Faulty variant: the listed extensions are not pre-loaded.
Preload_SkipsIds(throws) ==
  /\ pc = "preload"
  /\ ~throws
  /\ pc' = "merge"
  /\ UNCHANGED <<outerVars, processVars, spec, loadCalls, preload, domVars, waitVars,
                 thenVars, embedVars>>

\* Lines 123-127: one loadExtension call per listed id; the promise it returns
\* is dropped. A call that throws ends installFriendlyIframeEmbed by exception.
Preload(throws) ==
  /\ pc = "preload"
  /\ IF spec.hasExtensionIds /\ Len(loadCalls) < Len(spec.extensionIds)
       THEN /\ loadCalls' = Append(loadCalls, spec.extensionIds[Len(loadCalls) + 1])
            /\ IF throws
                 THEN pc' = "threw" /\ UNCHANGED preload
                 ELSE pc' = pc /\ preload' = "pending"
       ELSE /\ ~throws
            /\ pc' = "merge"
            /\ UNCHANGED <<loadCalls, preload>>
  /\ UNCHANGED <<outerVars, processVars, spec, domVars, waitVars, thenVars, embedVars>>

\* Lines 129-135: the merged html is built and iframe.onload is set.
Merge ==
  /\ pc = "merge"
  /\ mergedHtml' = mergeHtml(spec)
  /\ iframe' = [iframe EXCEPT !.onload = TRUE]
  /\ pc' = "inject"
  /\ UNCHANGED <<moduleVars, processVars, spec, loadCalls, preload, childDoc, events, waitVars,
                 thenVars, embedVars>>

\* Line 137: isSrcdocSupported() memoizes the detection and picks the strategy.
\* Lines 71-73: the detection runs when the memo is undefined.
Inject ==
  /\ pc = "inject"
  /\ srcdocSupported' = IF isSrcdocSupported THEN "true" ELSE "false"
  /\ detections' = IF srcdocSupported = "undefined" THEN detections + 1 ELSE detections
  /\ pc' = IF isSrcdocSupported THEN "srcdoc_set" ELSE "ws_src"
  /\ UNCHANGED <<outerVars, browserSrcdoc, installs, spec, loadCalls, preload, domVars, waitVars,
                 thenVars, embedVars>>

\* The document a newly attached iframe holds: empty, and (crbug.com/649201)
\* its ready-state may say "complete" at once.
InitialDocs == { [readyState |-> r, hasBody |-> b, nChildren |-> 0] :
                   r \in {"loading", "complete"}, b \in BOOLEAN }

\* Faulty variant: the source is not assigned before the iframe is appended.
SrcdocSet_NoSource ==
  /\ pc = "srcdoc_set"
  /\ pc' = "srcdoc_listen"
  /\ UNCHANGED <<outerVars, processVars, spec, loadCalls, preload, domVars, waitVars,
                 thenVars, embedVars>>

\* Line 138.
SrcdocSet ==
  /\ pc = "srcdoc_set"
  /\ iframe' = [iframe EXCEPT !.srcdoc = TRUE]
  /\ pc' = "srcdoc_listen"
  /\ UNCHANGED <<outerVars, processVars, spec, loadCalls, preload, childDoc, events, waitVars,
                 thenVars, embedVars>>

\* Faulty variant: the iframe is appended with nothing listening to it.
SrcdocListen_NoListen ==
  /\ pc = "srcdoc_listen"
  /\ pc' = "srcdoc_append"
  /\ UNCHANGED <<outerVars, processVars, spec, loadCalls, preload, domVars, waitVars,
                 thenVars, embedVars>>

\* Line 139: loadPromise(iframe).
SrcdocListen ==
  /\ pc = "srcdoc_listen"
  /\ loadedPromise' = [state |-> "pending", target |-> "iframe", caught |-> FALSE]
  /\ pc' = "srcdoc_append"
  /\ UNCHANGED <<outerVars, processVars, spec, loadCalls, preload, domVars, interval,
                 readyPromise, readyBy, thenVars, embedVars>>

\* Line 140: container.appendChild(iframe); the srcdoc is parsed later.
SrcdocAppend ==
  /\ pc = "srcdoc_append"
  /\ iframe' = [iframe EXCEPT !.attached = TRUE, !.appended = @ + 1]
  /\ childDoc' \in InitialDocs
  /\ pc' = "wait"
  /\ UNCHANGED <<outerVars, processVars, spec, loadCalls, preload, events, waitVars,
                 thenVars, embedVars>>

\* Line 142.
WsSrc ==
  /\ pc = "ws_src"
  /\ iframe' = [iframe EXCEPT !.src = "about:blank"]
  /\ pc' = "ws_append"
  /\ UNCHANGED <<outerVars, processVars, spec, loadCalls, preload, childDoc, events, waitVars,
                 thenVars, embedVars>>

\* Line 143.
WsAppend ==
  /\ pc = "ws_append"
  /\ iframe' = [iframe EXCEPT !.attached = TRUE, !.appended = @ + 1]
  /\ childDoc' \in InitialDocs
  /\ pc' = "ws_open"
  /\ UNCHANGED <<outerVars, processVars, spec, loadCalls, preload, events, waitVars,
                 thenVars, embedVars>>

\* Lines 144-145: childDoc.open() empties the document.
WsOpen ==
  /\ pc = "ws_open"
  /\ childDoc' = BlankDoc
  /\ pc' = "ws_write"
  /\ UNCHANGED <<outerVars, processVars, spec, loadCalls, preload, iframe, events, waitVars,
                 thenVars, embedVars>>

\* Line 146: childDoc.write(html) parses what the html holds, synchronously.
WsWrite ==
  /\ pc = "ws_write"
  /\ \E b \in BOOLEAN, n \in 0..1 :
       /\ (n > 0 => b)
       /\ childDoc' = [childDoc EXCEPT !.hasBody = b, !.nChildren = n]
  /\ pc' = "ws_listen"
  /\ UNCHANGED <<outerVars, processVars, spec, loadCalls, preload, iframe, events, waitVars,
                 thenVars, embedVars>>

\* Faulty variant: the write-stream strategy listens to the iframe.
WsListen_OnIframe ==
  /\ pc = "ws_listen"
  /\ loadedPromise' = [state |-> "pending", target |-> "iframe", caught |-> FALSE]
  /\ pc' = "ws_close"
  /\ UNCHANGED <<outerVars, processVars, spec, loadCalls, preload, domVars, interval,
                 readyPromise, readyBy, thenVars, embedVars>>

\* Line 149: loadPromise(iframe.contentWindow).
WsListen ==
  /\ pc = "ws_listen"
  /\ loadedPromise' = [state |-> "pending", target |-> "contentWindow", caught |-> FALSE]
  /\ pc' = "ws_close"
  /\ UNCHANGED <<outerVars, processVars, spec, loadCalls, preload, domVars, interval,
                 readyPromise, readyBy, thenVars, embedVars>>

\* Line 150: childDoc.close().
WsClose ==
  /\ pc = "ws_close"
  /\ \E r \in {"loading", "interactive", "complete"} :
       childDoc' = [childDoc EXCEPT !.readyState = r]
  /\ pc' = "wait"
  /\ UNCHANGED <<outerVars, processVars, spec, loadCalls, preload, iframe, events, waitVars,
                 thenVars, embedVars>>

\* Faulty variant: every call of resolve() queues the reaction of line 183.
resolve_Always(by, queue) ==
  /\ readyPromise' = "resolved"
  /\ readyBy' = IF readyPromise = "pending" THEN by ELSE readyBy
  /\ jobs' = Append(queue, "readyThen")

\* resolve() of readyPromise: the first call settles it and queues the
\* reaction registered at line 183; later calls do nothing.
resolve(by, queue) ==
  IF readyPromise = "pending"
    THEN readyPromise' = "resolved" /\ readyBy' = by /\ jobs' = Append(queue, "readyThen")
    ELSE UNCHANGED <<readyPromise, readyBy>> /\ jobs' = queue

\* Faulty variant: the callback of line 183 is queued without waiting for readyPromise.
WaitReady_NoWait ==
  /\ pc = "wait"
  /\ IF isIframeReady(iframe, childDoc)
       THEN /\ readyPromise' = "resolved"
            /\ readyBy' = "first"
            /\ UNCHANGED <<interval, loadedPromise>>
       ELSE /\ readyPromise' = "pending"
            /\ interval' = "active"
            /\ loadedPromise' = [loadedPromise EXCEPT !.caught = TRUE]
            /\ UNCHANGED readyBy
  /\ jobs' = Append(jobs, "readyThen")
  /\ installPromise' = "pending"
  /\ pc' = "returned"
  /\ UNCHANGED <<outerVars, processVars, spec, loadCalls, preload, domVars, thenPc, asyncErrors,
                 installCalls, embedVars>>

\* Lines 159-183: the first readiness check; when it fails, the poll timer is
\* created and the loaded promise gets its catch/then chain. The promise of
\* line 183 is returned to the caller.
WaitReady ==
  /\ pc = "wait"
  /\ IF isIframeReady(iframe, childDoc)
       THEN /\ readyPromise' = "resolved"
            /\ readyBy' = "first"
            /\ jobs' = Append(jobs, "readyThen")
            /\ UNCHANGED <<interval, loadedPromise>>
       ELSE /\ readyPromise' = "pending"
            /\ interval' = "active"
            /\ loadedPromise' = [loadedPromise EXCEPT !.caught = TRUE]
            /\ jobs' = IF loadedPromise.state = "pending"
                         THEN jobs ELSE Append(jobs, "loadedCatch")
            /\ UNCHANGED readyBy
  /\ installPromise' = "pending"
  /\ pc' = "returned"
  /\ UNCHANGED <<outerVars, processVars, spec, loadCalls, preload, domVars, thenPc, asyncErrors,
                 installCalls, embedVars>>

(***************************************************************************)
(* Tasks of the event loop: they run when no script runs and no promise     *)
(* reaction is queued.                                                      *)
(***************************************************************************)
Idle == pc = "returned" /\ jobs = <<>>

\* Faulty variant: a tick resolves without looking at the iframe.
PollTick_NoCheck ==
  /\ Idle
  /\ interval = "active"
  /\ resolve("tick", jobs)
  /\ interval' = "cleared"
  /\ UNCHANGED <<outerVars, processVars, callVars, domVars, loadedPromise, installPromise,
                 thenPc, asyncErrors, installCalls, embedVars>>

\* Lines 165-170: one tick of the 5 ms interval.
PollTick ==
  /\ Idle
  /\ interval = "active"
  /\ IF isIframeReady(iframe, childDoc)
       THEN resolve("tick", jobs) /\ interval' = "cleared"
       ELSE UNCHANGED <<readyPromise, readyBy, jobs, interval>>
  /\ UNCHANGED <<outerVars, processVars, callVars, domVars, loadedPromise, installPromise,
                 thenPc, asyncErrors, installCalls, embedVars>>

\* loadPromise(target): settled by the target's load or error event; a
\* reaction is queued when the catch of line 174 is attached.
settleLoaded(outcome) ==
  /\ loadedPromise' = [loadedPromise EXCEPT !.state = outcome]
  /\ jobs' = IF loadedPromise.caught THEN Append(jobs, "loadedCatch") ELSE jobs

\* The iframe element's load or error event. Lines 132-135: onload marks the
\* iframe complete. Under srcdoc this is the event the loaded promise tracks.
IframeEvent(kind) ==
  /\ Idle
  /\ iframe.attached
  /\ events.iframe = "none"
  /\ events' = [events EXCEPT !.iframe = kind]
  /\ iframe' = IF kind = "load" /\ iframe.onload
                 THEN [iframe EXCEPT !.readyState = "complete"] ELSE iframe
  /\ IF loadedPromise.target = "iframe" /\ loadedPromise.state = "pending"
       THEN /\ settleLoaded(IF kind = "load" THEN "resolved" ELSE "rejected")
            /\ childDoc' = IF kind = "load"
                             THEN [childDoc EXCEPT !.readyState = "complete"]
                             ELSE childDoc
       ELSE UNCHANGED <<loadedPromise, jobs, childDoc>>
  /\ UNCHANGED <<outerVars, processVars, callVars, interval, readyPromise, readyBy,
                 installPromise, thenPc, asyncErrors, installCalls, embedVars>>

\* The child window's load or error event, tracked under the write-stream
\* strategy.
WindowEvent(kind) ==
  /\ Idle
  /\ loadedPromise.target = "contentWindow"
  /\ events.win = "none"
  /\ events' = [events EXCEPT !.win = kind]
  /\ childDoc' = IF kind = "load"
                   THEN [childDoc EXCEPT !.readyState = "complete"] ELSE childDoc
  /\ IF loadedPromise.state = "pending"
       THEN settleLoaded(IF kind = "load" THEN "resolved" ELSE "rejected")
       ELSE UNCHANGED <<loadedPromise, jobs>>
  /\ UNCHANGED <<outerVars, processVars, callVars, iframe, interval, readyPromise, readyBy,
                 installPromise, thenPc, asyncErrors, installCalls, embedVars>>

\* The parser of the child document makes progress.
DocProgress ==
  /\ Idle
  /\ iframe.attached
  /\ childDoc.readyState \in {"loading", "interactive"}
  /\ childDoc' = [childDoc EXCEPT !.readyState =
                    IF @ = "loading" THEN "interactive" ELSE "complete"]
  /\ UNCHANGED <<outerVars, processVars, callVars, iframe, events, waitVars, thenVars, embedVars>>

CreateBody ==
  /\ Idle
  /\ iframe.attached
  /\ ~childDoc.hasBody
  /\ childDoc' = [childDoc EXCEPT !.hasBody = TRUE]
  /\ UNCHANGED <<outerVars, processVars, callVars, iframe, events, waitVars, thenVars, embedVars>>

AppendChild ==
  /\ Idle
  /\ iframe.attached
  /\ childDoc.hasBody
  /\ childDoc.nChildren < MaxChildren
  /\ childDoc' = [childDoc EXCEPT !.nChildren = @ + 1]
  /\ UNCHANGED <<outerVars, processVars, callVars, iframe, events, waitVars, thenVars, embedVars>>

\* A promise returned by loadExtension rejects; nobody holds it.
PreloadFails ==
  /\ Idle
  /\ preload = "pending"
  /\ preload' = "failed"
  /\ UNCHANGED <<outerVars, processVars, pc, spec, loadCalls, domVars, waitVars, thenVars,
                 embedVars>>

(***************************************************************************)
(* Promise reactions.                                                       *)
(***************************************************************************)
Running(job) == pc = "returned" /\ jobs # <<>> /\ Head(jobs) = job

\* Faulty variant: no catch in the chain, so a rejection skips the then of line 176.
LoadedCatch_NoCatch ==
  /\ Running("loadedCatch")
  /\ jobs' = IF loadedPromise.state = "rejected"
               THEN Tail(jobs) ELSE Append(Tail(jobs), "loadedThen")
  /\ UNCHANGED <<outerVars, processVars, callVars, domVars, waitVars, installPromise, thenPc,
                 asyncErrors, installCalls, embedVars>>

\* Faulty variant: the catch swallows the rejection without rethrowAsync.
LoadedCatch_Swallow ==
  /\ Running("loadedCatch")
  /\ jobs' = Append(Tail(jobs), "loadedThen")
  /\ UNCHANGED <<outerVars, processVars, callVars, domVars, waitVars, installPromise, thenPc,
                 asyncErrors, installCalls, embedVars>>

\* Lines 174-176: the catch reaction; a rejection goes to rethrowAsync and the
\* derived promise is fulfilled either way.
LoadedCatch ==
  /\ Running("loadedCatch")
  /\ asyncErrors' = IF loadedPromise.state = "rejected"
                      THEN asyncErrors + 1 ELSE asyncErrors
  /\ jobs' = Append(Tail(jobs), "loadedThen")
  /\ UNCHANGED <<outerVars, processVars, callVars, domVars, waitVars, installPromise, thenPc,
                 installCalls, embedVars>>

\* Faulty variant: the then of line 176 resolves but leaves the timer running.
LoadedThen_NoClear ==
  /\ Running("loadedThen")
  /\ resolve("loaded", Tail(jobs))
  /\ UNCHANGED <<outerVars, processVars, callVars, domVars, loadedPromise, interval,
                 installPromise, thenPc, asyncErrors, installCalls, embedVars>>

\* Lines 176-179.
LoadedThen ==
  /\ Running("loadedThen")
  /\ resolve("loaded", Tail(jobs))
  /\ interval' = "cleared"
  /\ UNCHANGED <<outerVars, processVars, callVars, domVars, loadedPromise, installPromise,
                 thenPc, asyncErrors, installCalls, embedVars>>

\* Faulty variant: the embed is constructed and not hung on the iframe.
ThenConstruct_NoBackReference ==
  /\ Running("readyThen")
  /\ thenPc = "none"
  /\ embed' = [exists |-> TRUE, visible |-> FALSE, handlers |-> <<>>,
               renderStart |-> 0, destroyed |-> FALSE,
               loadedPromise_ |-> loadedPromise.target]
  /\ thenPc' = "install"
  /\ UNCHANGED <<outerVars, processVars, callVars, domVars, waitVars, installPromise,
                 jobs, asyncErrors, installCalls, setLog, notifLog, subAt, unsubAt,
                 subOrder, fireOrder, tracker>>

\* Lines 184-185 and 296-321: the embed is constructed and hung on the iframe.
ThenConstruct ==
  /\ Running("readyThen")
  /\ thenPc = "none"
  /\ embed' = [exists |-> TRUE, visible |-> FALSE, handlers |-> <<>>,
               renderStart |-> 0, destroyed |-> FALSE,
               loadedPromise_ |-> loadedPromise.target]
  /\ iframe' = [iframe EXCEPT !.embedProp = "embed"]
  /\ thenPc' = "install"
  /\ UNCHANGED <<outerVars, processVars, callVars, childDoc, events, waitVars, installPromise,
                 jobs, asyncErrors, installCalls, setLog, notifLog, subAt, unsubAt,
                 subOrder, fireOrder, tracker>>

\* Faulty variant: an exception of installExtensionsInChildWindow is caught and dropped.
ThenInstallExtensions_Caught(throws) ==
  /\ Running("readyThen")
  /\ thenPc = "install"
  /\ installCalls' = Append(installCalls,
       [ids |-> IF spec.hasExtensionIds THEN spec.extensionIds ELSE <<>>,
        hook |-> spec.hook, threw |-> throws])
  /\ thenPc' = "render"
  /\ tracker' = IF throws THEN tracker
                ELSE [resources |-> tracker.resources \cup {"child"},
                      services |-> tracker.services \cup {"child"}]
  /\ UNCHANGED <<outerVars, processVars, callVars, domVars, waitVars, asyncErrors, embed, setLog,
                 notifLog, subAt, unsubAt, subOrder, fireOrder, installPromise, jobs>>

\* Lines 187-190: installExtensionsInChildWindow(childWin, ids, hook). An
\* exception leaves the callback and rejects the promise of line 183.
ThenInstallExtensions(throws) ==
  /\ Running("readyThen")
  /\ thenPc = "install"
  /\ installCalls' = Append(installCalls,
       [ids |-> IF spec.hasExtensionIds THEN spec.extensionIds ELSE <<>>,
        hook |-> spec.hook, threw |-> throws])
  /\ IF throws
       THEN /\ installPromise' = "rejected"
            /\ thenPc' = "threw"
            /\ jobs' = Tail(jobs)
            /\ UNCHANGED tracker
       ELSE /\ thenPc' = "render"
            /\ tracker' = [resources |-> tracker.resources \cup {"child"},
                           services |-> tracker.services \cup {"child"}]
            /\ UNCHANGED <<installPromise, jobs>>
  /\ UNCHANGED <<outerVars, processVars, callVars, domVars, waitVars, asyncErrors, embed, setLog,
                 notifLog, subAt, unsubAt, subOrder, fireOrder>>

\* Faulty variant: the iframe is shown, render-start is not signalled.
startRender_NoSignal ==
  /\ embed' = embed
  /\ iframe' = [iframe EXCEPT !.visibility = ""]

\* Lines 192 and 346-356: startRender_ signals render-start and shows the iframe.
startRender_ ==
  /\ embed' = [embed EXCEPT !.renderStart = @ + 1]
  /\ iframe' = [iframe EXCEPT !.visibility = ""]

ThenStartRender ==
  /\ Running("readyThen")
  /\ thenPc = "render"
  /\ startRender_
  /\ thenPc' = "return"
  /\ UNCHANGED <<outerVars, processVars, callVars, childDoc, events, waitVars, installPromise,
                 jobs, asyncErrors, installCalls, setLog, notifLog, subAt, unsubAt,
                 subOrder, fireOrder, tracker>>

\* Line 193: the callback returns the embed; the install promise resolves.
ThenReturn ==
  /\ Running("readyThen")
  /\ thenPc = "return"
  /\ installPromise' = "resolved"
  /\ thenPc' = "finished"
  /\ jobs' = Tail(jobs)
  /\ UNCHANGED <<outerVars, processVars, callVars, domVars, waitVars, asyncErrors, installCalls,
                 embedVars>>

(***************************************************************************)
(* FriendlyIframeEmbed, used by whoever holds the embed.                    *)
(***************************************************************************)
\* observable.js: add appends the handler, the function it returns removes
\* it, fire calls the handlers in the order of the list.
ObservableAdd(handlers, h) == Append(handlers, h)
ObservableRemove(handlers, h) == SelectSeq(handlers, LAMBDA x : x # h)
ObservableFire(handlers, event) ==
  /\ notifLog' = [h \in Handlers |->
       IF \E i \in 1..Len(handlers) : handlers[i] = h
         THEN Append(notifLog[h], event) ELSE notifLog[h]]
  /\ fireOrder' = handlers

HasEmbed == Idle /\ embed.exists /\ getFriendlyIframeEmbedOptional(iframe) = "embed"

\* Lines 341-343: the promise whenLoaded() returns, named by what it listens to.
whenLoaded == embed.loadedPromise_

\* Lines 365-367.
isVisible == embed.visible

\* Faulty variant: no comparison with the current flag.
setVisible_NoGuard(visible) ==
  /\ embed' = [embed EXCEPT !.visible = visible]
  /\ ObservableFire(embed.handlers, visible)

\* Lines 382-387.
setVisible_(visible) ==
  IF embed.visible # visible
    THEN /\ embed' = [embed EXCEPT !.visible = visible]
         /\ ObservableFire(embed.handlers, visible)
    ELSE UNCHANGED <<embed, notifLog, fireOrder>>

\* Lines 87-89: setFriendlyIframeEmbedVisible(embed, visible).
SetVisible(visible) ==
  /\ HasEmbed
  /\ Len(setLog) < MaxSetCalls
  /\ setLog' = Append(setLog, visible)
  /\ setVisible_(visible)
  /\ UNCHANGED <<outerVars, processVars, callVars, domVars, waitVars, thenVars, subAt, unsubAt,
                 subOrder, tracker>>

\* Faulty variant: the handler goes to the front of the list.
onVisibilityChanged_Prepend(handler) ==
  embed' = [embed EXCEPT !.handlers = <<handler>> \o @]

\* Lines 374-376.
onVisibilityChanged(handler) ==
  embed' = [embed EXCEPT !.handlers = ObservableAdd(@, handler)]

Subscribe(handler) ==
  /\ HasEmbed
  /\ subAt[handler] = -1
  /\ onVisibilityChanged(handler)
  /\ subAt' = [subAt EXCEPT ![handler] = Len(setLog)]
  /\ subOrder' = Append(subOrder, handler)
  /\ UNCHANGED <<outerVars, processVars, callVars, domVars, waitVars, thenVars, setLog, notifLog,
                 unsubAt, fireOrder, tracker>>

\* The function returned by onVisibilityChanged(handler) is called.
Unsubscribe(handler) ==
  /\ HasEmbed
  /\ subAt[handler] # -1
  /\ embed' = [embed EXCEPT !.handlers = ObservableRemove(@, handler)]
  /\ unsubAt' = [unsubAt EXCEPT ![handler] = IF @ = -1 THEN Len(setLog) ELSE @]
  /\ UNCHANGED <<outerVars, processVars, callVars, domVars, waitVars, thenVars, setLog, notifLog,
                 subAt, subOrder, fireOrder, tracker>>

\* resources.js and service.js: the child window's registration is removed,
\* the services of the child window are disposed; other windows are not
\* looked at.
removeForChildWindow(registered, win) == registered \ {win}
disposeServicesForEmbed(services, win) == services \ {win}

\* Faulty variant: destroy also clears the iframe's back-reference.
destroy_ClearsBackReference ==
  /\ tracker' = [resources |-> removeForChildWindow(tracker.resources, "child"),
                 services |-> disposeServicesForEmbed(tracker.services, "child")]
  /\ embed' = [embed EXCEPT !.destroyed = TRUE]
  /\ iframe' = [iframe EXCEPT !.embedProp = "null"]

\* Faulty variant: the services are disposed, the resources stay registered.
destroy_KeepsResources ==
  /\ tracker' = [tracker EXCEPT
                   !.services = disposeServicesForEmbed(tracker.services, "child")]
  /\ embed' = [embed EXCEPT !.destroyed = TRUE]
  /\ UNCHANGED iframe

\* Lines 326-329: the child window leaves the resource tracker and its services
\* are disposed. Nothing else is written.
destroy ==
  /\ tracker' = [resources |-> removeForChildWindow(tracker.resources, "child"),
                 services |-> disposeServicesForEmbed(tracker.services, "child")]
  /\ embed' = [embed EXCEPT !.destroyed = TRUE]
  /\ UNCHANGED iframe

Destroy ==
  /\ HasEmbed
  /\ ~embed.destroyed
  /\ destroy
  /\ UNCHANGED <<outerVars, processVars, callVars, childDoc, events, waitVars, thenVars, setLog,
                 notifLog, subAt, unsubAt, subOrder, fireOrder>>

Next ==
  \/ \E val \in {"undefined", "true", "false"} : setSrcdocSupportedForTesting(val)
  \/ \E hasIds \in BOOLEAN, ids \in ExtensionIdLists, hook \in BOOLEAN :
       (hasIds \/ ids = <<>>) /\ Install(hasIds, ids, hook)
  \/ \E throws \in BOOLEAN : Preload(throws)
  \/ Merge
  \/ Inject
  \/ SrcdocSet
  \/ SrcdocListen
  \/ SrcdocAppend
  \/ WsSrc
  \/ WsAppend
  \/ WsOpen
  \/ WsWrite
  \/ WsListen
  \/ WsClose
  \/ WaitReady
  \/ PollTick
  \/ \E kind \in {"load", "error"} : IframeEvent(kind)
  \/ \E kind \in {"load", "error"} : WindowEvent(kind)
  \/ DocProgress
  \/ CreateBody
  \/ AppendChild
  \/ PreloadFails
  \/ LoadedCatch
  \/ LoadedThen
  \/ ThenConstruct
  \/ \E throws \in BOOLEAN : ThenInstallExtensions(throws)
  \/ ThenStartRender
  \/ ThenReturn
  \/ Destroy

Spec == Init /\ [][Next]_vars

(***************************************************************************)
(* Several installs. The installs of a page share the module-level memo and *)
(* nothing else that this module writes; the model follows one call at a    *)
(* time and, when the caller turns to another iframe, starts over with the  *)
(* state of a call not yet made and the memo as it is.                      *)
(***************************************************************************)
MaxInstalls == 2

\* Lines 113-114: the arguments of a later call are another iframe and spec.
NewIframe ==
  /\ pc = "threw" \/ Idle
  /\ installs < MaxInstalls
  /\ pc' = "idle"
  /\ spec' = FriendlyIframeSpec(FALSE, <<>>, FALSE, NoDoc)
  /\ mergedHtml' = <<>>
  /\ loadCalls' = <<>>
  /\ preload' = "none"
  /\ iframe' = [visibility |-> "", referrerpolicy |-> "", onload |-> FALSE,
                srcdoc |-> FALSE, src |-> "", attached |-> FALSE, appended |-> 0,
                readyState |-> "", embedProp |-> "null"]
  /\ childDoc' = BlankDoc
  /\ events' = [iframe |-> "none", win |-> "none"]
  /\ loadedPromise' = [state |-> "none", target |-> "none", caught |-> FALSE]
  /\ interval' = "none"
  /\ readyPromise' = "none"
  /\ readyBy' = "none"
  /\ installPromise' = "none"
  /\ jobs' = <<>>
  /\ thenPc' = "none"
  /\ asyncErrors' = 0
  /\ installCalls' = <<>>
  /\ embed' = NoEmbed
  /\ setLog' = <<>>
  /\ notifLog' = [h \in Handlers |-> <<>>]
  /\ subAt' = [h \in Handlers |-> -1]
  /\ unsubAt' = [h \in Handlers |-> -1]
  /\ subOrder' = <<>>
  /\ fireOrder' = <<>>
  /\ tracker' = [resources |-> {"other"}, services |-> {"other"}]
  /\ UNCHANGED <<processVars, moduleVars>>

StrategyNext ==
  \/ Next
  \/ NewIframe

StrategySpec == Init /\ [][StrategyNext]_vars

(***************************************************************************)
(* The embed on its own: it starts as install leaves it (srcdoc strategy,    *)
(* readiness seen by a poll tick, no extensions) and is driven through its   *)
(* visibility interface and destroy.                                         *)
(***************************************************************************)
EmbedInit ==
  /\ srcdocSupported = "true"
  /\ browserSrcdoc = TRUE
  /\ detections = 1
  /\ installs = 1
  /\ pc = "returned"
  /\ spec = FriendlyIframeSpec(FALSE, <<>>, FALSE, HeadDoc)
  /\ mergedHtml = mergeHtml(spec)
  /\ ModulesInit
  /\ loadCalls = <<>>
  /\ preload = "none"
  /\ iframe = [visibility |-> "", referrerpolicy |-> "unsafe-url", onload |-> TRUE,
               srcdoc |-> TRUE, src |-> "", attached |-> TRUE, appended |-> 1,
               readyState |-> "", embedProp |-> "embed"]
  /\ childDoc = [readyState |-> "interactive", hasBody |-> TRUE, nChildren |-> 1]
  /\ events = [iframe |-> "none", win |-> "none"]
  /\ loadedPromise = [state |-> "pending", target |-> "iframe", caught |-> TRUE]
  /\ interval = "cleared"
  /\ readyPromise = "resolved"
  /\ readyBy = "tick"
  /\ installPromise = "resolved"
  /\ jobs = <<>>
  /\ thenPc = "finished"
  /\ asyncErrors = 0
  /\ installCalls = << [ids |-> <<>>, hook |-> FALSE, threw |-> FALSE] >>
  /\ embed = [exists |-> TRUE, visible |-> FALSE, handlers |-> <<>>,
              renderStart |-> 1, destroyed |-> FALSE, loadedPromise_ |-> "iframe"]
  /\ setLog = <<>>
  /\ notifLog = [h \in Handlers |-> <<>>]
  /\ subAt = [h \in Handlers |-> -1]
  /\ unsubAt = [h \in Handlers |-> -1]
  /\ subOrder = <<>>
  /\ fireOrder = <<>>
  /\ tracker = [resources |-> {"other", "child"}, services |-> {"other", "child"}]

EmbedNext ==
  \/ \E visible \in BOOLEAN : SetVisible(visible)
  \/ \E handler \in Handlers : Subscribe(handler)
  \/ \E handler \in Handlers : Unsubscribe(handler)
  \/ Destroy

EmbedSpec == EmbedInit /\ [][EmbedNext]_vars


\* Promise reactions are microtasks: once queued they run.
FairSpec ==
  /\ Spec
  /\ WF_vars(LoadedCatch)
  /\ WF_vars(LoadedThen)
  /\ WF_vars(ThenConstruct)
  /\ WF_vars(\E throws \in BOOLEAN : ThenInstallExtensions(throws))
  /\ WF_vars(ThenStartRender)
  /\ WF_vars(ThenReturn)

Settled(p) == p \in {"resolved", "rejected"}

(***************************************************************************)
(* Properties.                                                              *)
(***************************************************************************)

\* C1: installExtensionsInChildWindow is called only once the readiness wait
\* is satisfied, and the install promise resolves only after that call has
\* been made (exactly once) and the callback has run to its end.
C1_InstallBetweenReadyAndResolve ==
  /\ (installCalls # <<>> \/ thenPc # "none") => readyPromise = "resolved"
  /\ installPromise = "resolved" =>
       /\ Len(installCalls) = 1
       /\ thenPc = "finished"
       /\ embed.exists
  /\ thenPc \in {"none", "install"} => installPromise # "resolved"

C1_Witness ==
  /\ installPromise = "resolved"
  /\ Len(installCalls) = 1
  /\ readyPromise = "resolved"
  /\ spec.hook

\* C2: the readiness wait ends in one of three ways only: ready at the first
\* check (no timer is ever created), a poll tick that saw the iframe ready,
\* or the loaded promise having settled; while the iframe is not ready and
\* the loaded promise has not settled, the install promise is not settled.
C2_ReadyOnlyThreeWays ==
  /\ readyPromise = "resolved" =>
       \/ readyBy = "first" /\ interval = "none" /\ isIframeReady(iframe, childDoc)
       \/ readyBy = "tick" /\ interval = "cleared" /\ isIframeReady(iframe, childDoc)
       \/ readyBy = "loaded" /\ interval = "cleared" /\ Settled(loadedPromise.state)
  /\ (~isIframeReady(iframe, childDoc) /\ ~Settled(loadedPromise.state)) =>
       /\ readyPromise # "resolved"
       /\ ~Settled(installPromise)
  /\ Settled(installPromise) => readyPromise = "resolved"

C2_Witness ==
  /\ readyBy = "loaded"
  /\ installPromise = "resolved"
  /\ ~isIframeReady(iframe, childDoc)
  /\ loadedPromise.state = "resolved"

\* C3: once the loaded promise has settled, the readiness wait is eventually
\* satisfied and the install promise eventually settles, ready document or not.
C3_LoadedSettlesInstall ==
  Settled(loadedPromise.state) ~>
    (readyPromise = "resolved" /\ Settled(installPromise))

C3_Witness ==
  /\ loadedPromise.state = "rejected"
  /\ readyBy = "loaded"
  /\ ~isIframeReady(iframe, childDoc)
  /\ Settled(installPromise)

\* C4 as stated: whenever the loaded promise has rejected and every reaction
\* has run, the failure has been reported to the async-error reporter, whether
\* or not the installer had to poll.
C4_Original ==
  (loadedPromise.state = "rejected" /\ Idle) => asyncErrors >= 1

\* C4, amended: when the installer had to poll, a rejection of the loaded
\* promise is reported exactly once; when the iframe was ready at the first
\* check nothing is attached to the loaded promise and nothing is reported. In
\* both cases the install promise is rejected only by the callback of line 183
\* throwing, never by the load failure.
C4_ReportedOnlyWhenPolling ==
  /\ (loadedPromise.state = "rejected" /\ Idle /\ interval # "none") => asyncErrors = 1
  /\ interval = "none" => asyncErrors = 0 /\ ~loadedPromise.caught
  /\ asyncErrors > 0 => loadedPromise.state = "rejected"
  /\ asyncErrors <= 1
  /\ installPromise = "rejected" => thenPc = "threw"

C4_Witness ==
  /\ loadedPromise.state = "rejected"
  /\ Idle
  /\ asyncErrors = 1
  /\ installPromise = "resolved"

\* installExtensionsInChildWindow has thrown.
InstallThrew == \E i \in 1..Len(installCalls) : installCalls[i].threw

\* C5 as stated: a failed pre-load, like a failed installExtensionsInChildWindow,
\* keeps the install promise from resolving with an embed.
C5_Original ==
  [][(preload = "failed" \/ InstallThrew) => installPromise' # "resolved"]_vars

\* C5, amended: installExtensionsInChildWindow throwing rejects the install
\* promise, which then never resolves; loadExtension throwing ends the call
\* by exception before any promise or embed exists; nothing else rejects the
\* install promise (a rejected pre-load promise is dropped).
C5_InstallFailureRejects ==
  /\ InstallThrew => installPromise = "rejected" /\ thenPc = "threw"
  /\ pc = "threw" => installPromise = "none" /\ ~embed.exists /\ jobs = <<>>
  /\ installPromise = "rejected" => thenPc = "threw" /\ embed.renderStart = 0

C5_Witness ==
  /\ InstallThrew
  /\ installPromise = "rejected"
  /\ preload = "failed"
  /\ Idle

IframeInputs == { [attached |-> a] : a \in BOOLEAN }
DocInputs == { [readyState |-> r, hasBody |-> b, nChildren |-> n] :
                 r \in {"loading", "interactive", "complete"},
                 b \in BOOLEAN, n \in 0..MaxChildren }
FourConditions(f, d) ==
  /\ f.attached
  /\ d.readyState \in {"interactive", "complete"}
  /\ d.hasBody
  /\ d.nChildren >= 1

\* C7: isIframeReady is true exactly when the child window exists, the
\* document is past "loading", it has a body and the body has a child; with a
\* body of zero children it is false, and appending one child, nothing else
\* changed, makes it true when the other conditions hold.
C7_ReadyIffFourConditions ==
  /\ isIframeReady(iframe, childDoc) = FourConditions(iframe, childDoc)
  /\ \A f \in IframeInputs, d \in DocInputs :
       /\ isIframeReady(f, d) = FourConditions(f, d)
       /\ (d.hasBody /\ d.nChildren = 0) =>
            /\ ~isIframeReady(f, d)
            /\ (f.attached /\ d.readyState # "loading") =>
                 isIframeReady(f, [d EXCEPT !.nChildren = 1])

C7_Witness ==
  /\ readyBy = "tick"
  /\ childDoc.hasBody
  /\ childDoc.nChildren = 1
  /\ isIframeReady(iframe, childDoc)

\* What the calls logged in setLog amount to: the flag after the first n calls
\* (it starts false), and the values of the calls in lo+1..hi that changed it.
FlagAfter(log, n) == IF n = 0 THEN FALSE ELSE log[n]
RECURSIVE ChangesIn(_, _, _)
ChangesIn(log, lo, hi) ==
  IF hi <= lo THEN <<>>
  ELSE IF log[hi] # FlagAfter(log, hi - 1)
         THEN Append(ChangesIn(log, lo, hi - 1), log[hi])
         ELSE ChangesIn(log, lo, hi - 1)
Subscribed(h) == subAt[h] # -1 /\ unsubAt[h] = -1
StillSubscribed == SelectSeq(subOrder, LAMBDA h : unsubAt[h] = -1)
PosIn(seq, h) == CHOOSE i \in 1..Len(seq) : seq[i] = h

\* C8: isVisible() is the last value passed to setVisible_ (false before any
\* call); a subscribed handler has been called once per call that changed the
\* flag since it subscribed, with the new value each time, and never for a
\* call that repeated the current value; a fire calls the subscribed handlers
\* in subscription order.
C8_NotifyOnChangeOnly ==
  /\ isVisible = FlagAfter(setLog, Len(setLog))
  /\ \A h \in Handlers :
       /\ Subscribed(h) => notifLog[h] = ChangesIn(setLog, subAt[h], Len(setLog))
       /\ subAt[h] = -1 => notifLog[h] = <<>>
  /\ (setLog = <<FALSE>> \/ setLog = <<FALSE, FALSE>>) =>
       \A h \in Handlers : notifLog[h] = <<>>
  /\ \A h \in Handlers :
       (setLog = <<TRUE, FALSE, TRUE>> /\ subAt[h] = 0 /\ unsubAt[h] = -1) =>
         notifLog[h] = <<TRUE, FALSE, TRUE>>
  /\ \A i, j \in 1..Len(fireOrder) :
       i < j => PosIn(subOrder, fireOrder[i]) < PosIn(subOrder, fireOrder[j])

C8_Witness ==
  /\ setLog = <<TRUE, FALSE, TRUE>>
  /\ subAt[1] = 0
  /\ Subscribed(1)
  /\ Len(notifLog[1]) = 3
  /\ isVisible

C10_Original ==
  embed.destroyed => getFriendlyIframeEmbedOptional(iframe) # "embed"

\* C10, amended: destroy() does not clear the back-reference; it removes the
\* child window from the resource tracker and disposes its services, and
\* getFriendlyIframeEmbedOptional(iframe) still returns the embed afterwards.
C10_BackReferenceKept ==
  /\ embed.destroyed =>
       /\ getFriendlyIframeEmbedOptional(iframe) = "embed"
       /\ "child" \notin tracker.resources
       /\ "child" \notin tracker.services
  /\ embed.exists => getFriendlyIframeEmbedOptional(iframe) = "embed"

C10_Witness ==
  /\ embed.destroyed
  /\ installPromise = "resolved"
  /\ getFriendlyIframeEmbedOptional(iframe) = "embed"

\* C11: once destroy() has run, the child window is registered neither with
\* the resource tracker nor with the services, and the step that destroys
\* leaves every other window's registration as it was.
C11_DestroyReleasesChildWindowOnly ==
  /\ [](embed.destroyed =>
          /\ "child" \notin tracker.resources
          /\ "child" \notin tracker.services)
  /\ [][(~embed.destroyed /\ embed'.destroyed) =>
          \A w \in Windows \ {"child"} :
            /\ (w \in tracker'.resources) = (w \in tracker.resources)
            /\ (w \in tracker'.services) = (w \in tracker.services)]_vars

C11_Witness ==
  /\ embed.destroyed
  /\ "other" \in tracker.resources
  /\ "other" \in tracker.services
  /\ "child" \notin tracker.resources
  /\ "child" \notin tracker.services
  /\ thenPc = "finished"
  /\ readyBy = "first"

\* C12: render-start is signalled at most once, never before
\* installExtensionsInChildWindow has been called and has returned, and always
\* before the install promise resolves.
C12_RenderStartOnceAfterInstall ==
  /\ embed.renderStart <= 1
  /\ embed.renderStart = 1 => Len(installCalls) = 1 /\ ~InstallThrew
  /\ installPromise = "resolved" => embed.renderStart = 1
  /\ thenPc \in {"none", "install", "render", "threw"} => embed.renderStart = 0

C12_Witness ==
  /\ embed.renderStart = 1
  /\ thenPc = "return"
  /\ installPromise = "pending"
  /\ Len(installCalls) = 1

\* C13: the iframe is hidden when it is attached, stays hidden from then until
\* render-start, and only startRender_ takes the hidden style away.
C13_HiddenUntilRenderStart ==
  /\ []((iframe.attached /\ embed.renderStart = 0) => iframe.visibility = "hidden")
  /\ [][(~iframe.attached /\ iframe'.attached) => iframe.visibility = "hidden"]_vars
  /\ [][(iframe.visibility = "hidden" /\ iframe'.visibility # "hidden") =>
          /\ thenPc = "render"
          /\ embed'.renderStart = embed.renderStart + 1]_vars

C13_Witness ==
  /\ iframe.attached
  /\ iframe.visibility = "hidden"
  /\ loadedPromise.target = "contentWindow"
  /\ thenPc = "render"

\* The state of a promise made by loadPromise(target), from the event the
\* target has fired.
EventOutcome(e) == CASE e = "load" -> "resolved"
                     [] e = "error" -> "rejected"
                     [] OTHER -> "pending"

\* C14: whenLoaded() returns the promise install created; under the srcdoc
\* strategy that promise follows the iframe's load/error event, under the
\* write-stream strategy the child window's.
C14_WhenLoadedIsInstallToken ==
  embed.exists =>
    /\ whenLoaded = loadedPromise.target
    /\ iframe.srcdoc =>
         /\ whenLoaded = "iframe"
         /\ loadedPromise.state = EventOutcome(events.iframe)
    /\ iframe.src = "about:blank" =>
         /\ whenLoaded = "contentWindow"
         /\ loadedPromise.state = EventOutcome(events.win)
    /\ iframe.srcdoc # (iframe.src = "about:blank")

C14_Witness ==
  /\ embed.exists
  /\ whenLoaded = "contentWindow"
  /\ events.iframe = "load"
  /\ events.win = "error"
  /\ loadedPromise.state = "rejected"

(***************************************************************************)
(* mergeHtml on its own: every document of Docs, through                   *)
(* mergeHtmlForTesting.                                                    *)
(***************************************************************************)
MergeInit ==
  /\ FrameInit
  /\ \E doc \in Docs : spec = FriendlyIframeSpec(FALSE, <<>>, FALSE, doc)
  /\ mergedHtml = <<>>
  /\ ModulesInit

MergeHtmlForTesting ==
  /\ pc = "idle"
  /\ mergedHtml = <<>>
  /\ mergedHtml' = mergeHtmlForTesting(spec)
  /\ UNCHANGED <<moduleVars, processVars, callVars, domVars, waitVars, thenVars,
                 embedVars>>

MergeNext == MergeHtmlForTesting

MergeSpec == MergeInit /\ [][MergeNext]_vars

(***************************************************************************)
(* What the claims about mergeHtml say, read off the original html: a tag  *)
(* is matched letter by letter whatever the case, and positions count      *)
(* characters of the original string.                                      *)
(***************************************************************************)
Merged == mergedHtml # <<>>

\* The first position (zero-based) where tag stands in str in any letter
\* case, or -1.
TagAt(str, tag) ==
  LET hits == { i \in 0..(Len(str) - Len(tag)) :
                  \A k \in 1..Len(tag) : Upper(str[i + k]) = << tag[k] >> }
  IN  IF hits = {} THEN -1 ELSE Min(hits)

\* The position just after the first '>' that follows the tag, or -1 when the
\* tag is absent or never closed.
AfterTag(str, tag) ==
  IF TagAt(str, tag) = -1 \/ indexOf(str, TagEnd, TagAt(str, tag) + 1) = -1
  THEN -1
  ELSE indexOf(str, TagEnd, TagAt(str, tag) + 1) + 1

\* The <base> tag and the font links: what mergeHtml adds.
Inserted(sp) ==
  baseTag(sp.url) \o join(IF sp.hasFonts THEN fontLinks(sp.fonts) ELSE <<>>)

\* The html with Inserted placed between its first at characters and the rest.
SplitAt(sp, at) ==
  SubSeq(sp.html, 1, at) \o Inserted(sp) \o SubSeq(sp.html, at + 1, Len(sp.html))

\* No character before position at grows under toUpperCase.
SameLengthUpTo(str, at) ==
  Len(toUpperCase(SubSeq(str, 1, at))) = at

\* C15: when the html has a <head tag in any case, closed by a '>', the
\* output is the html up to and including that '>', then the <base> tag and
\* the font links, then the rest of the html.
C15_Original ==
  (Merged /\ AfterTag(spec.html, TagHead) # -1) =>
    mergedHtml = SplitAt(spec, AfterTag(spec.html, TagHead))

\* C15 holds for the html whose characters up to the head's '>' keep their
\* length under toUpperCase.
C15_HoldsWithoutExpansion ==
  (/\ Merged
   /\ AfterTag(spec.html, TagHead) # -1
   /\ SameLengthUpTo(spec.html, AfterTag(spec.html, TagHead))) =>
    mergedHtml = SplitAt(spec, AfterTag(spec.html, TagHead))

C15_Witness ==
  /\ Merged
  /\ spec.html = <<SharpS>> \o HeadDoc.html
  /\ AfterTag(spec.html, TagHead) = 7
  /\ mergedHtml = spec.html \o Inserted(spec)

\* C16: when the html has a <body tag and neither a <head nor an <html tag,
\* the <base> tag and the font links stand immediately before the first <body,
\* also when <body is at index 0.
C16_Original ==
  (/\ Merged
   /\ TagAt(spec.html, TagHead) = -1
   /\ TagAt(spec.html, TagHtml) = -1
   /\ TagAt(spec.html, TagBody) # -1) =>
    mergedHtml = SplitAt(spec, TagAt(spec.html, TagBody))

\* C16 holds for the html whose characters before <body keep their length
\* under toUpperCase.
C16_HoldsWithoutExpansion ==
  (/\ Merged
   /\ TagAt(spec.html, TagHead) = -1
   /\ TagAt(spec.html, TagHtml) = -1
   /\ TagAt(spec.html, TagBody) # -1
   /\ SameLengthUpTo(spec.html, TagAt(spec.html, TagBody))) =>
    mergedHtml = SplitAt(spec, TagAt(spec.html, TagBody))

C16_Witness ==
  /\ Merged
  /\ spec.html = <<SharpS, "<", "B", "o", "d", "y", ">">>
  /\ TagAt(spec.html, TagBody) = 1
  /\ mergedHtml = SplitAt(spec, 2)

\* C17: with neither <head nor <body, the <base> tag stands right after the
\* first '>' that follows <html; with <body and no <head, it stands at the
\* <body position even when <html is present too.
C17_Original ==
  /\ (/\ Merged
      /\ TagAt(spec.html, TagHead) = -1
      /\ TagAt(spec.html, TagBody) = -1
      /\ AfterTag(spec.html, TagHtml) # -1) =>
       mergedHtml = SplitAt(spec, AfterTag(spec.html, TagHtml))
  /\ (/\ Merged
      /\ TagAt(spec.html, TagHead) = -1
      /\ TagAt(spec.html, TagBody) # -1) =>
       mergedHtml = SplitAt(spec, TagAt(spec.html, TagBody))

\* C17 holds for the html whose characters before the insertion point keep
\* their length under toUpperCase.
C17_HoldsWithoutExpansion ==
  /\ (/\ Merged
      /\ TagAt(spec.html, TagHead) = -1
      /\ TagAt(spec.html, TagBody) = -1
      /\ AfterTag(spec.html, TagHtml) # -1
      /\ SameLengthUpTo(spec.html, AfterTag(spec.html, TagHtml))) =>
       mergedHtml = SplitAt(spec, AfterTag(spec.html, TagHtml))
  /\ (/\ Merged
      /\ TagAt(spec.html, TagHead) = -1
      /\ TagAt(spec.html, TagBody) # -1
      /\ SameLengthUpTo(spec.html, TagAt(spec.html, TagBody))) =>
       mergedHtml = SplitAt(spec, TagAt(spec.html, TagBody))

C17_Witness ==
  /\ Merged
  /\ spec.html = <<SharpS, "<", "h", "t", "m", "l", ">", "x">>
  /\ AfterTag(spec.html, TagHtml) = 7
  /\ mergedHtml = spec.html \o Inserted(spec)

\* C18: when the html has none of <head, <body, <html, or the computed
\* insertion point is 0, the output is the <base> tag and the font links
\* followed by the whole original html; nothing of the original comes first.
C18_PrependWithoutInsertionPoint ==
  Merged =>
    /\ (/\ TagAt(spec.html, TagHead) = -1
        /\ TagAt(spec.html, TagBody) = -1
        /\ TagAt(spec.html, TagHtml) = -1) =>
         /\ insertionPoint(toUpperCase(spec.html)) = -1
         /\ mergedHtml = Inserted(spec) \o spec.html
    /\ insertionPoint(toUpperCase(spec.html)) = 0 =>
         /\ mergedHtml = Inserted(spec) \o spec.html
         /\ indexOf(mergedHtml, BaseOpen, 0) = 0

C18_Witness ==
  /\ Merged
  /\ TagAt(spec.html, TagBody) = 0
  /\ insertionPoint(toUpperCase(spec.html)) = 0
  /\ Len(spec.html) > Len(TagBody)
  /\ spec.fonts = <<FontA>>
  /\ SubSeq(mergedHtml, 1, Len(BaseOpen)) = BaseOpen

\* The link tags of fonts[i], fonts[i + 1], ... one after the other.
RECURSIVE LinksFrom(_, _)
LinksFrom(fonts, i) ==
  IF i > Len(fonts) THEN <<>>
  ELSE LinkOpen \o escapeHtml(fonts[i]) \o LinkClose \o LinksFrom(fonts, i + 1)

\* How often pattern occurs in str.
Occurrences(str, pattern) ==
  Cardinality({ i \in 0..(Len(str) - Len(pattern)) :
                  SubSeq(str, i + 1, i + Len(pattern)) = pattern })

EscapedBase == <<"<", "b", "a", "s", "e", " ", "h", "r", "e", "f", "=", "\"", "a", "&", "a", "m", "p", ";", "b", "\"", ">">>

\* C19: the output holds <base href> exactly once; the base tag is followed at
\* once by one link per font, in the order of spec.fonts, and by nothing else
\* before the original html goes on; an '&' of a URL comes out as '&amp;';
\* with fonts absent or empty there is no link.
C19_BaseOnceThenFontLinks ==
  Merged =>
    LET at == indexOf(mergedHtml, BaseOpen, 0)
        added == BaseOpen \o escapeHtml(spec.url) \o BaseClose
                   \o (IF spec.hasFonts THEN LinksFrom(spec.fonts, 1) ELSE <<>>)
    IN  /\ Occurrences(mergedHtml, BaseOpen) = 1
        /\ SubSeq(mergedHtml, at + 1, at + Len(added)) = added
        /\ SubSeq(mergedHtml, 1, at)
             \o SubSeq(mergedHtml, at + Len(added) + 1, Len(mergedHtml)) = spec.html
        /\ Occurrences(mergedHtml, LinkOpen)
             = (IF spec.hasFonts THEN Len(spec.fonts) ELSE 0)
        /\ spec.url = <<"a", "&", "b">> =>
             SubSeq(mergedHtml, at + 1, at + Len(EscapedBase)) = EscapedBase
        /\ \A j \in (at + 1)..(at + Len(added)) :
             mergedHtml[j] = "&" => SubSeq(mergedHtml, j, j + 4) = <<"&", "a", "m", "p", ";">>

C19_Witness ==
  /\ Merged
  /\ spec.fonts = <<FontB, FontA>>
  /\ spec.url = <<"a", "&", "b">>
  /\ indexOf(mergedHtml, BaseOpen, 0) > 0
  /\ Occurrences(mergedHtml, LinkOpen) = 2
  /\ Occurrences(mergedHtml, <<"&", "a", "m", "p", ";">>) = 2

(***************************************************************************)
(* AmpRecaptchaService (amp-recaptcha-service.js). register and unregister *)
(* run to completion; the callback of initialize_ and the iframe's load    *)
(* event come later, each as a step of its own.                            *)
(***************************************************************************)
MaxServiceCalls == 4

\* The sitekeys elements register with; "" is the empty string.
Sitekeys == {"", "k1", "k2"}

\* !x for a ?string field.
IsFalsyString(x) == x = "null" \/ x = ""

\* One call on the service: its argument, what it returned (-1 for a rejected
\* promise, else the index of the iframe whose load promise it is, 0 for
\* nothing), and the service and the number of iframes before and after.
Rejected == -1

Call(op, arg, result, after, nFrames) ==
  [op |-> op, arg |-> arg, result |-> result, before |-> service, after |-> after,
   framesBefore |-> Len(frames), framesAfter |-> nFrames]

NewFrame == [state |-> "creating", loaded |-> FALSE, sitekey |-> "null", ready |-> FALSE]

NoEntries == [id \in ResourceIds |-> 0]

\* Lines 98-113.
register(sitekey) ==
  IF ~IsFalsyString(service.sitekey_) /\ service.sitekey_ # sitekey
  THEN /\ calls' = Append(calls, Call("register", sitekey, Rejected, service, Len(frames)))
       /\ UNCHANGED <<service, frames>>
  ELSE LET keyed == IF IsFalsyString(service.sitekey_)
                    THEN [service EXCEPT !.sitekey_ = sitekey]
                    ELSE service
           counted == [keyed EXCEPT !.registeredElementCount_ = @ + 1]
       IN  IF counted.iframeLoadPromise_ = 0
           THEN /\ frames' = Append(frames, NewFrame)
                /\ service' = [counted EXCEPT !.iframeLoadPromise_ = Len(frames) + 1]
                /\ calls' = Append(calls, Call("register", sitekey, Len(frames) + 1,
                                               service', Len(frames) + 1))
           ELSE /\ service' = counted
                /\ calls' = Append(calls, Call("register", sitekey,
                                               counted.iframeLoadPromise_,
                                               service', Len(frames)))
                /\ UNCHANGED frames

Register(sitekey) ==
  /\ Len(calls) < MaxServiceCalls
  /\ register(sitekey)
  /\ UNCHANGED <<deferreds, executes, postJobs, posted, thrown, installVars, observerVars>>

\* Lines 196-206: with an iframe, it is removed, the listeners are taken off
\* and the fields are reset, recaptchaApiReady_ to a new Deferred; sitekey_ and
\* registeredElementCount_ are not touched.
dispose_(svc) ==
  IF svc.iframe_ # 0
  THEN /\ frames' = [frames EXCEPT ![svc.iframe_].state = "removed"]
       /\ deferreds' = Append(deferreds, FALSE)
       /\ service' = [svc EXCEPT !.iframe_ = 0, !.iframeLoadPromise_ = 0,
                                 !.recaptchaApiReady_ = Len(deferreds) + 1,
                                 !.unlisteners_ = 0, !.executeMap_ = NoEntries]
  ELSE /\ service' = svc
       /\ UNCHANGED <<frames, deferreds>>

\* Lines 119-124.
unregister ==
  LET counted == [service EXCEPT !.registeredElementCount_ = @ - 1]
  IN  /\ IF counted.registeredElementCount_ <= 0
         THEN dispose_(counted)
         ELSE service' = counted /\ UNCHANGED <<frames, deferreds>>
      /\ calls' = Append(calls, Call("unregister", "null", 0, service', Len(frames)))

Unregister ==
  /\ Len(calls) < MaxServiceCalls
  /\ unregister
  /\ UNCHANGED <<executes, postJobs, posted, thrown, installVars, observerVars>>

\* What a call of execute hands out: the promise, the Deferred it waits for
\* before posting, how far its posting has got, and the execute whose map
\* entry it took over (0 for none).
NewExecute(resourceId) ==
  [id |-> resourceId, state |-> "pending", answer |-> 0,
   deferred |-> service.recaptchaApiReady_,
   early |-> ~deferreds[service.recaptchaApiReady_],
   posting |-> IF deferreds[service.recaptchaApiReady_] THEN "queued" ELSE "waiting",
   replaced |-> service.executeMap_[resourceId]]

\* Faulty variant: execute does not look at this.iframe_.
execute_NoIframeCheck(resourceId) ==
  /\ executes' = Append(executes, NewExecute(resourceId))
  /\ service' = [service EXCEPT !.executeMap_[resourceId] = Len(executes) + 1]
  /\ postJobs' = IF deferreds[service.recaptchaApiReady_]
                 THEN Append(postJobs, Len(executes) + 1)
                 ELSE postJobs
  /\ calls' = Append(calls, Call("execute", resourceId, Len(executes) + 1,
                                 service', Len(frames)))

\* Faulty variant: the reaction is queued whether or not the Deferred is
\* resolved.
execute_NoWaitForReady(resourceId) ==
  IF service.iframe_ = 0
  THEN /\ calls' = Append(calls, Call("execute", resourceId, Rejected, service, Len(frames)))
       /\ UNCHANGED <<service, executes, postJobs>>
  ELSE /\ executes' = Append(executes, [NewExecute(resourceId) EXCEPT !.posting = "queued"])
       /\ service' = [service EXCEPT !.executeMap_[resourceId] = Len(executes) + 1]
       /\ postJobs' = Append(postJobs, Len(executes) + 1)
       /\ calls' = Append(calls, Call("execute", resourceId, Len(executes) + 1,
                                      service', Len(frames)))

\* Lines 136-164: without an iframe a rejected promise; else a new Deferred is
\* entered in executeMap_ under the resource id, in place of what was there,
\* and the posting is left to a reaction of recaptchaApiReady_.promise, which
\* is queued at once when that promise is already resolved.
execute(resourceId) ==
  IF service.iframe_ = 0
  THEN /\ calls' = Append(calls, Call("execute", resourceId, Rejected, service, Len(frames)))
       /\ UNCHANGED <<service, executes, postJobs>>
  ELSE /\ executes' = Append(executes, NewExecute(resourceId))
       /\ service' = [service EXCEPT !.executeMap_[resourceId] = Len(executes) + 1]
       /\ postJobs' = IF deferreds[service.recaptchaApiReady_]
                      THEN Append(postJobs, Len(executes) + 1)
                      ELSE postJobs
       /\ calls' = Append(calls, Call("execute", resourceId, Len(executes) + 1,
                                      service', Len(frames)))

Execute(resourceId) ==
  /\ Len(calls) < MaxServiceCalls
  /\ execute(resourceId)
  /\ UNCHANGED <<frames, deferreds, posted, thrown, installVars, observerVars>>

Message(n) == [frame |-> service.iframe_, id |-> executes[n].id, exec |-> n, answered |-> FALSE]

\* Lines 149-162, one queued reaction: the message goes to this.iframe_;
\* dev().assertElement throws when there is none.
PostJob ==
  /\ postJobs # <<>>
  /\ LET n == Head(postJobs)
     IN  IF service.iframe_ = 0
         THEN /\ thrown' = thrown + 1
              /\ executes' = [executes EXCEPT ![n].posting = "threw"]
              /\ UNCHANGED posted
         ELSE /\ posted' = Append(posted, Message(n))
              /\ executes' = [executes EXCEPT ![n].posting = "posted"]
              /\ UNCHANGED thrown
  /\ postJobs' = Tail(postJobs)
  /\ UNCHANGED <<service, frames, calls, deferreds, installVars, observerVars>>

\* Lines 171-189 and 214-236: the iframe is built with the sitekey of that
\* moment, becomes this.iframe_, gets the three listeners and is attached;
\* executeMap_ is emptied. A promise reaction: it runs after the reactions
\* queued before it.
InitializeThen(i) ==
  /\ postJobs = <<>>
  /\ frames[i].state = "creating"
  /\ \A j \in 1..(i - 1) : frames[j].state # "creating"
  /\ frames' = [frames EXCEPT ![i].state = "attached", ![i].sitekey = service.sitekey_]
  /\ service' = [service EXCEPT !.iframe_ = i, !.unlisteners_ = i,
                                !.executeMap_ = NoEntries]
  /\ UNCHANGED <<calls, deferreds, executes, postJobs, posted, thrown, installVars,
                 observerVars>>

\* Line 188: loadPromise(this.iframe_) resolves on the iframe's load event.
FrameLoad(i) ==
  /\ postJobs = <<>>
  /\ frames[i].state = "attached"
  /\ ~frames[i].loaded
  /\ frames' = [frames EXCEPT ![i].loaded = TRUE]
  /\ UNCHANGED <<service, calls, deferreds, executes, postJobs, posted, thrown,
                 installVars, observerVars>>

\* The executes whose reaction waits for Deferred d, in call order.
RECURSIVE Waiting(_, _)
Waiting(d, n) ==
  IF n > Len(executes) THEN <<>>
  ELSE (IF executes[n].deferred = d /\ executes[n].posting = "waiting"
        THEN <<n>> ELSE <<>>) \o Waiting(d, n + 1)

RECURSIVE Messages(_)
Messages(ns) == IF ns = <<>> THEN <<>> ELSE <<Message(Head(ns))>> \o Messages(Tail(ns))

\* Lines 175-177: 'amp-recaptcha-ready' from the iframe listened to resolves
\* the present recaptchaApiReady_; the reactions waiting for it run before
\* anything else does and post their messages.
ReadyMessage(i) ==
  /\ postJobs = <<>>
  /\ frames[i].state = "attached"
  /\ ~frames[i].ready
  /\ service.unlisteners_ = i
  /\ frames' = [frames EXCEPT ![i].ready = TRUE]
  /\ deferreds' = [deferreds EXCEPT ![service.recaptchaApiReady_] = TRUE]
  /\ LET ns == Waiting(service.recaptchaApiReady_, 1)
     IN  /\ posted' = posted \o Messages(ns)
         /\ executes' = [n \in DOMAIN executes |->
                           IF executes[n].deferred = service.recaptchaApiReady_
                              /\ executes[n].posting = "waiting"
                           THEN [executes[n] EXCEPT !.posting = "posted"]
                           ELSE executes[n]]
  /\ UNCHANGED <<service, calls, postJobs, thrown, installVars, observerVars>>

\* Lines 303-319: the iframe answers posted message m with a token or an
\* error carrying its id. The handler settles the promise entered under that
\* id and deletes the entry; with no entry, reading .resolve or .reject of
\* undefined throws.
Answer(m, kind) ==
  /\ postJobs = <<>>
  /\ ~posted[m].answered
  /\ service.unlisteners_ = posted[m].frame
  /\ posted' = [posted EXCEPT ![m].answered = TRUE]
  /\ LET n == service.executeMap_[posted[m].id]
     IN  IF n = 0
         THEN /\ thrown' = thrown + 1
              /\ UNCHANGED <<service, executes>>
         ELSE /\ executes' = [executes EXCEPT
                                ![n].state = IF kind = "token" THEN "resolved" ELSE "rejected",
                                ![n].answer = m]
              /\ service' = [service EXCEPT !.executeMap_[posted[m].id] = 0]
              /\ UNCHANGED thrown
  /\ UNCHANGED <<frames, calls, deferreds, postJobs, installVars, observerVars>>

RecaptchaInit ==
  /\ FrameInit
  /\ browserSrcdoc
  /\ spec = FriendlyIframeSpec(FALSE, <<>>, FALSE, NoDoc)
  /\ mergedHtml = <<>>
  /\ ModulesInit

RecaptchaNext ==
  \/ \E sitekey \in Sitekeys : Register(sitekey)
  \/ Unregister
  \/ \E resourceId \in ResourceIds : Execute(resourceId)
  \/ PostJob
  \/ \E i \in DOMAIN frames : InitializeThen(i)
  \/ \E i \in DOMAIN frames : FrameLoad(i)
  \/ \E i \in DOMAIN frames : ReadyMessage(i)
  \/ \E m \in DOMAIN posted : \E kind \in {"token", "error"} : Answer(m, kind)

RecaptchaSpec == RecaptchaInit /\ [][RecaptchaNext]_vars

\* The register calls made with a sitekey other than the stored one.
MismatchedRegisters ==
  { i \in DOMAIN calls : /\ calls[i].op = "register"
                         /\ calls[i].before.sitekey_ # "null"
                         /\ calls[i].before.sitekey_ # calls[i].arg }

\* C20: a register call whose sitekey differs from the stored one returns a
\* rejected promise and leaves the count, the iframe, the load promise and the
\* sitekey as they were, and asks for no iframe.
C20_Original ==
  \A i \in MismatchedRegisters :
    /\ calls[i].result = Rejected
    /\ calls[i].after = calls[i].before
    /\ calls[i].framesAfter = calls[i].framesBefore

\* C20 holds when the stored sitekey is not the empty string.
C20_HoldsForNonEmptySitekey ==
  \A i \in MismatchedRegisters :
    calls[i].before.sitekey_ # "" =>
      /\ calls[i].result = Rejected
      /\ calls[i].after = calls[i].before
      /\ calls[i].framesAfter = calls[i].framesBefore

C20_Witness ==
  /\ Len(calls) = 2
  /\ calls[1].op = "register" /\ calls[1].arg = ""
  /\ calls[2].op = "register" /\ calls[2].arg = "k1"
  /\ calls[2].before.sitekey_ = ""
  /\ calls[2].result = 1
  /\ service.sitekey_ = "k1"
  /\ service.registeredElementCount_ = 2

\* A step that is a call of execute.
ExecuteStep ==
  /\ Len(calls') = Len(calls) + 1
  /\ calls'[Len(calls')].op = "execute"

\* C21: execute called while this.iframe_ is null (before any register, while
\* the iframe is being created, after dispose) returns a rejected promise,
\* enters nothing in executeMap_, queues no posting and posts nothing.
C21_ExecuteWithoutIframeRejects ==
  /\ [](\A i \in DOMAIN calls :
          (calls[i].op = "execute" /\ calls[i].before.iframe_ = 0) =>
            /\ calls[i].result = Rejected
            /\ calls[i].after = calls[i].before)
  /\ [][(ExecuteStep /\ service.iframe_ = 0) =>
          /\ calls'[Len(calls')].result = Rejected
          /\ service' = service
          /\ executes' = executes
          /\ postJobs' = postJobs
          /\ posted' = posted]_vars

C21_Witness ==
  /\ Len(calls) = 4
  /\ calls[1].op = "execute" /\ calls[1].result = Rejected
  /\ calls[2].op = "register"
  /\ calls[3].op = "execute" /\ calls[3].result = Rejected
  /\ calls[3].before.iframeLoadPromise_ = 1
  /\ calls[4].op = "execute" /\ calls[4].result = 1
  /\ Len(executes) = 1

\* C22 as stated: once every posted action has been answered, the promise of
\* every execute whose action was posted is settled, by the answer to its own
\* action, and its entry is gone from executeMap_.
C22_Original ==
  \A n \in DOMAIN executes :
    (executes[n].posting = "posted" /\ \A m \in DOMAIN posted : posted[m].answered) =>
      /\ executes[n].state # "pending"
      /\ posted[executes[n].answer].exec = n
      /\ service.executeMap_[executes[n].id] # n

\* C22 holds as long as no execute was called with a resource id that had a
\* pending entry in executeMap_.
C22_HoldsForDistinctIds ==
  (\A k \in DOMAIN executes : executes[k].replaced = 0) =>
    \A n \in DOMAIN executes :
      (executes[n].posting = "posted" /\ \A m \in DOMAIN posted : posted[m].answered) =>
        /\ executes[n].state # "pending"
        /\ posted[executes[n].answer].exec = n
        /\ service.executeMap_[executes[n].id] # n

C22_Witness ==
  /\ Len(executes) = 2
  /\ executes[1].id = executes[2].id
  /\ executes[2].replaced = 1
  /\ Len(posted) = 2
  /\ posted[1].answered /\ posted[2].answered
  /\ executes[1].state = "pending"
  /\ executes[2].state = "resolved" /\ executes[2].answer = 1
  /\ thrown = 1

\* C29: a message is posted only to the iframe that is this.iframe_ at that
\* moment, is attached and has sent 'amp-recaptcha-ready', and only for an
\* execute issued for that iframe; an execute issued before ready is posted
\* when ready arrives; nothing is posted for an execute whose iframe was
\* disposed before its ready.
C29_PostOnlyAfterReady ==
  /\ [](\A n \in DOMAIN executes :
          /\ executes[n].posting = "waiting" => ~deferreds[executes[n].deferred]
          /\ (executes[n].early /\ deferreds[executes[n].deferred]) =>
               executes[n].posting = "posted"
          /\ executes[n].posting = "posted" => deferreds[executes[n].deferred])
  /\ [](\A m \in DOMAIN posted : frames[posted[m].frame].ready)
  /\ [][\A k \in (Len(posted) + 1)..Len(posted') :
          /\ posted'[k].frame # 0
          /\ posted'[k].frame = service.iframe_
          /\ service.unlisteners_ = posted'[k].frame
          /\ frames'[posted'[k].frame].state = "attached"
          /\ frames'[posted'[k].frame].ready
          /\ executes[posted'[k].exec].deferred = service.recaptchaApiReady_]_vars

C29_Witness ==
  /\ Len(executes) = 2
  /\ executes[1].early /\ executes[1].posting = "posted"
  /\ ~executes[2].early /\ executes[2].posting = "posted"
  /\ Len(posted) = 2
  /\ posted[1].frame = 1 /\ posted[2].frame = 1
  /\ frames[1].ready

(***************************************************************************)
(* HiddenAttributeMutationObserver (hidden-attribute-mutation-observer.js).*)
(* Callbacks are named; the list callbacks_ may hold a name more than      *)
(* once. A mutation notification and the firing of the pass are tasks.     *)
(***************************************************************************)
MaxCallbacks == 3
MaxUnregisterCalls == 2
MaxPassRuns == 2

Callbacks == {"a", "b"}

\* Array.prototype.indexOf, zero-based, -1 when absent.
arrayIndexOf(list, item) ==
  IF \E i \in DOMAIN list : list[i] = item
  THEN Min({ i \in DOMAIN list : list[i] = item }) - 1
  ELSE -1

\* Array.prototype.splice(start, 1): a negative start counts from the end.
splice(list, start) ==
  LET from == IF start < 0 THEN (IF Len(list) + start < 0 THEN 0 ELSE Len(list) + start)
              ELSE start
  IN  IF from >= Len(list) THEN list
      ELSE SubSeq(list, 1, from) \o SubSeq(list, from + 2, Len(list))

\* Lines 70-85.
initialize_(obs) ==
  IF obs.winMutationObserver /\ obs.mutationObserver_ = "null"
  THEN [obs EXCEPT !.mutationPass_ = "idle", !.mutationObserver_ = "observing"]
  ELSE obs

\* Lines 126-136.
disconnect_(obs) == [obs EXCEPT !.mutationObserver_ = "null", !.mutationPass_ = "null"]

\* Lines 56-62.
ObserverRegister(callback) ==
  /\ Len(observer.callbacks_) < MaxCallbacks
  /\ LET ready == IF Len(observer.callbacks_) <= 0 THEN initialize_(observer) ELSE observer
     IN  observer' = [ready EXCEPT !.callbacks_ = Append(@, callback),
                                   !.unregisterFns = @ \cup {callback}]
  /\ UNCHANGED <<unregisterCalls, passRuns, installVars, serviceVars>>

\* Lines 90-96: splice at the index indexOf gives, then disconnect when one
\* callback or none is left.
unregister_(obs, callback) ==
  LET spliced == [obs EXCEPT
                    !.callbacks_ = splice(@, arrayIndexOf(obs.callbacks_, callback))]
  IN  IF Len(spliced.callbacks_) <= 1 THEN disconnect_(spliced) ELSE spliced

\* A function register returned is called.
ObserverUnregister(callback) ==
  /\ Len(unregisterCalls) < MaxUnregisterCalls
  /\ callback \in observer.unregisterFns
  /\ observer' = unregister_(observer, callback)
  /\ unregisterCalls' = Append(unregisterCalls,
                               [callback |-> callback, before |-> observer.callbacks_,
                                after |-> observer'.callbacks_])
  /\ UNCHANGED <<passRuns, installVars, serviceVars>>

\* Lines 102-109: a notification schedules the pass unless it is pending.
MutationNotification ==
  /\ Len(passRuns) < MaxPassRuns
  /\ observer.mutationObserver_ = "observing"
  /\ observer.mutationPass_ = "idle"
  /\ observer' = [observer EXCEPT !.mutationPass_ = "pending"]
  /\ UNCHANGED <<unregisterCalls, passRuns, installVars, serviceVars>>

\* Lines 73-75: the handler given to the Pass binds handleMutationPassEvent_
\* (lines 115-119, which would call every callback in order) and does not
\* call what it bound: no callback is invoked.
passHandler(callbacks) == <<>>

\* The pass fires after its delay and runs its handler.
PassFires ==
  /\ observer.mutationPass_ = "pending"
  /\ passRuns' = Append(passRuns, [callbacks |-> observer.callbacks_,
                                   invoked |-> passHandler(observer.callbacks_)])
  /\ observer' = [observer EXCEPT !.mutationPass_ = "idle"]
  /\ UNCHANGED <<unregisterCalls, installVars, serviceVars>>

ObserverInit ==
  /\ FrameInit
  /\ browserSrcdoc
  /\ spec = FriendlyIframeSpec(FALSE, <<>>, FALSE, NoDoc)
  /\ mergedHtml = <<>>
  /\ ServiceInit
  /\ \E winMutationObserver \in BOOLEAN : observer = NewObserver(winMutationObserver)
  /\ ObserverQuiet

ObserverNext ==
  \/ \E callback \in Callbacks : ObserverRegister(callback)
  \/ \E callback \in Callbacks : ObserverUnregister(callback)
  \/ MutationNotification
  \/ PassFires

ObserverSpec == ObserverInit /\ [][ObserverNext]_vars

Range(list) == { list[i] : i \in DOMAIN list }

\* C23 as stated: when the pass that a hidden-attribute notification scheduled
\* has run, every callback registered at that moment has been invoked.
C23_Original ==
  \A r \in DOMAIN passRuns :
    \A callback \in Range(passRuns[r].callbacks) :
      callback \in Range(passRuns[r].invoked)

C23_Witness ==
  /\ Len(passRuns) = 1
  /\ passRuns[1].callbacks = <<"a", "b">>
  /\ passRuns[1].invoked = <<>>
  /\ observer.mutationObserver_ = "observing"
  /\ observer.mutationPass_ = "idle"

\* The list without the first occurrence of callback.
WithoutFirst(list, callback) ==
  LET at == Min({ i \in DOMAIN list : list[i] = callback })
  IN  SubSeq(list, 1, at - 1) \o SubSeq(list, at + 1, Len(list))

\* C24 as stated: a call of the function register returned takes its callback
\* out of the list and leaves the others in, in their order; a call made when
\* the callback is out of the list already removes nothing.
C24_Original ==
  \A c \in DOMAIN unregisterCalls :
    IF unregisterCalls[c].callback \in Range(unregisterCalls[c].before)
    THEN unregisterCalls[c].after
           = WithoutFirst(unregisterCalls[c].before, unregisterCalls[c].callback)
    ELSE unregisterCalls[c].after = unregisterCalls[c].before

\* C24 holds for the calls made while the callback is in the list.
C24_HoldsWhileRegistered ==
  \A c \in DOMAIN unregisterCalls :
    unregisterCalls[c].callback \in Range(unregisterCalls[c].before) =>
      unregisterCalls[c].after
        = WithoutFirst(unregisterCalls[c].before, unregisterCalls[c].callback)

C24_Witness ==
  /\ Len(unregisterCalls) = 2
  /\ unregisterCalls[1].callback = "a" /\ unregisterCalls[2].callback = "a"
  /\ unregisterCalls[1].before = <<"a", "b">> /\ unregisterCalls[1].after = <<"b">>
  /\ unregisterCalls[2].before = <<"b">> /\ unregisterCalls[2].after = <<>>

(***************************************************************************)
(* Properties of the installer: order of the injection, the strategy memo,  *)
(* the extension lists and the effects of one call.                         *)
(***************************************************************************)
WriteStreamSteps == {"ws_open", "ws_write", "ws_listen", "ws_close"}

\* C25: under srcdoc the source is assigned before the iframe is appended;
\* under the write stream the iframe points at about:blank and is appended
\* before the child document is opened, written and closed; and whenever the
\* caller holds the install promise or the embed, the iframe is attached.
C25_InjectionOrder ==
  /\ [](/\ iframe.attached => iframe.srcdoc \/ iframe.src = "about:blank"
        /\ pc \in WriteStreamSteps =>
             iframe.attached /\ iframe.src = "about:blank" /\ ~iframe.srcdoc
        /\ (installPromise # "none" \/ embed.exists) => iframe.attached)
  /\ [][/\ (~iframe.attached /\ iframe'.attached) =>
             \/ pc = "srcdoc_append" /\ iframe.srcdoc /\ loadedPromise.target = "iframe"
             \/ pc = "ws_append" /\ iframe.src = "about:blank" /\ ~iframe.srcdoc
                  /\ loadedPromise.target = "none"
        /\ childDoc' # childDoc => iframe'.attached
        /\ (pc \in WriteStreamSteps /\ pc' # pc) => iframe.attached]_vars

\* Reached: a write-stream install has resolved.
C25_Witness ==
  /\ installPromise = "resolved"
  /\ iframe.src = "about:blank"
  /\ iframe.attached
  /\ loadedPromise.target = "contentWindow"

Strategy(flag) == IF flag = "true" THEN "srcdoc_set" ELSE "ws_src"

\* C26: an install that finds the memo set uses the strategy the memo names,
\* runs no detection and leaves the memo as it is, whatever the browser
\* supports; the detection runs only when the memo is undefined, and a set
\* memo changes only by setSrcdocSupportedForTesting, between installs.
C26_StrategyDecidedOnceAndCached ==
  [][/\ (pc = "inject" /\ pc' # "inject" /\ srcdocSupported # "undefined") =>
          /\ pc' = Strategy(srcdocSupported)
          /\ srcdocSupported' = srcdocSupported
          /\ detections' = detections
     /\ (pc = "inject" /\ pc' # "inject" /\ srcdocSupported = "undefined") =>
          /\ detections' = detections + 1
          /\ srcdocSupported' = (IF browserSrcdoc THEN "true" ELSE "false")
          /\ pc' = Strategy(srcdocSupported')
     /\ detections' # detections => pc = "inject" /\ srcdocSupported = "undefined"
     /\ (srcdocSupported # "undefined" /\ srcdocSupported' # srcdocSupported) =>
          pc = "idle" /\ pc' = "idle"]_vars

\* Reached: the first install detected a browser without srcdoc, the override
\* was set to true, and the second install injected by srcdoc with no second
\* detection.
C26_Witness ==
  /\ installs = 2
  /\ detections = 1
  /\ ~browserSrcdoc
  /\ srcdocSupported = "true"
  /\ iframe.srcdoc
  /\ iframe.attached

\* spec.extensionIds || []
ExtensionIds == IF spec.hasExtensionIds THEN spec.extensionIds ELSE <<>>

IsPrefix(a, b) == Len(a) <= Len(b) /\ \A i \in 1..Len(a) : a[i] = b[i]

\* C27: the loadExtension calls are the listed ids, each once and in list
\* order, all made before the html is merged and injected;
\* installExtensionsInChildWindow gets the same list; without extensionIds
\* there is no loadExtension call and the list passed on is empty.
C27_PreloadAndInstallList ==
  /\ IsPrefix(loadCalls, ExtensionIds)
  /\ pc \notin {"idle", "preload", "threw"} => loadCalls = ExtensionIds
  /\ (mergedHtml # <<>> \/ iframe.srcdoc \/ iframe.attached) => loadCalls = ExtensionIds
  /\ \A i \in 1..Len(installCalls) :
       installCalls[i].ids = ExtensionIds /\ installCalls[i].ids = loadCalls
  /\ ~spec.hasExtensionIds =>
       /\ loadCalls = <<>>
       /\ \A i \in 1..Len(installCalls) : installCalls[i].ids = <<>>

\* Reached: two ids were pre-loaded in list order, the install resolved while
\* the pre-loads were still pending.
C27_Witness ==
  /\ loadCalls = <<"amp-b", "amp-a">>
  /\ preload = "pending"
  /\ installPromise = "resolved"
  /\ Len(installCalls) = 1
  /\ installCalls[1].ids = <<"amp-b", "amp-a">>

Count(list, x) == Cardinality({i \in 1..Len(list) : list[i] = x})

\* C28: one call appends the iframe once, queues the callback of line 183 at
\* most once and never again after it ran, and so constructs the embed,
\* calls installExtensionsInChildWindow and signals render-start at most once.
C28_EffectsOnce ==
  /\ [](/\ iframe.appended <= 1
        /\ iframe.attached <=> iframe.appended = 1
        /\ pc = "returned" => iframe.appended = 1
        /\ Count(jobs, "readyThen") <= 1
        /\ thenPc \in {"finished", "threw"} => Count(jobs, "readyThen") = 0
        /\ Len(installCalls) <= 1
        /\ embed.renderStart <= 1
        /\ installPromise = "resolved" => Len(installCalls) = 1 /\ embed.exists)
  /\ [][/\ (~embed.exists /\ embed'.exists) => thenPc = "none" /\ installCalls = <<>>
        /\ embed.exists => embed'.exists]_vars

\* Reached: a poll tick saw the iframe ready, the install resolved, and the
\* loaded promise settled afterwards and its reactions ran.
C28_Witness ==
  /\ readyBy = "tick"
  /\ loadedPromise.caught
  /\ Settled(loadedPromise.state)
  /\ jobs = <<>>
  /\ installPromise = "resolved"
  /\ Len(installCalls) = 1
  /\ iframe.appended = 1

InstallExtensionsCalled == Len(installCalls') > Len(installCalls)
InstallResolves == installPromise # "resolved" /\ installPromise' = "resolved"

\* C30, as stated: at the call of installExtensionsInChildWindow and when the
\* install promise resolves, isIframeReady(iframe) holds.
C30_Original ==
  [][(InstallExtensionsCalled \/ InstallResolves) => isIframeReady(iframe, childDoc)]_vars

\* C30, amended: it holds when the wait ended at the first check or by a poll
\* tick.
C30_ReadyUnlessLoadedFallback ==
  [][((InstallExtensionsCalled \/ InstallResolves) /\ readyBy \in {"first", "tick"}) =>
       isIframeReady(iframe, childDoc)]_vars

\* Reached: the wait ended by a poll tick and the install resolved.
C30_Witness ==
  /\ readyBy = "tick"
  /\ installPromise = "resolved"
  /\ Len(installCalls) = 1
  /\ isIframeReady(iframe, childDoc)

\* The event of the target the loaded promise listens to.
TrackedEvent ==
  CASE loadedPromise.target = "iframe" -> events.iframe
    [] loadedPromise.target = "contentWindow" -> events.win
    [] OTHER -> "none"

\* C31: the loaded promise listens before the step that can trigger its event
\* (the append under srcdoc, the close of the child document under the write
\* stream); every load or error event meets a listening promise, and the
\* promise is settled once the event of its target has occurred.
C31_ListeningBeforeTrigger ==
  /\ [](/\ (iframe.attached /\ iframe.srcdoc) =>
             loadedPromise.target = "iframe" /\ loadedPromise.state # "none"
        /\ (pc \in {"ws_close", "wait", "returned"} /\ ~iframe.srcdoc) =>
             loadedPromise.target = "contentWindow" /\ loadedPromise.state # "none"
        /\ events # [iframe |-> "none", win |-> "none"] => loadedPromise.state # "none"
        /\ TrackedEvent = "load" => loadedPromise.state = "resolved"
        /\ TrackedEvent = "error" => loadedPromise.state = "rejected")
  /\ [][/\ (~iframe.attached /\ iframe'.attached /\ iframe.srcdoc) =>
             loadedPromise.state = "pending"
        /\ (pc = "ws_close" /\ pc' # pc) => loadedPromise.state = "pending"
        /\ events' # events => loadedPromise.state # "none"]_vars

\* Reached: under the write stream the child window's load event has occurred
\* and the loaded promise is resolved.
C31_Witness ==
  /\ loadedPromise.target = "contentWindow"
  /\ events.win = "load"
  /\ loadedPromise.state = "resolved"

\* C32: getFriendlyIframeEmbedOptional(iframe) yields no embed until the
\* readiness wait is over and the callback of line 183 has started; the
\* back-reference is written once, from unset to the embed just constructed,
\* before installExtensionsInChildWindow and render-start, and it is there
\* whenever the install promise has resolved with the embed.
C32_BackReferenceSetOnceAfterReady ==
  /\ [](/\ readyPromise # "resolved" => getFriendlyIframeEmbedOptional(iframe) = "null"
        /\ thenPc = "none" => getFriendlyIframeEmbedOptional(iframe) = "null"
        /\ thenPc \in {"install", "render", "return", "finished", "threw"} =>
             getFriendlyIframeEmbedOptional(iframe) = "embed" /\ embed.exists
        /\ (installCalls # <<>> \/ embed.renderStart > 0 \/ installPromise = "resolved") =>
             getFriendlyIframeEmbedOptional(iframe) = "embed" /\ embed.exists)
  /\ [][getFriendlyIframeEmbedOptional(iframe') # getFriendlyIframeEmbedOptional(iframe) =>
          /\ getFriendlyIframeEmbedOptional(iframe) = "null"
          /\ getFriendlyIframeEmbedOptional(iframe') = "embed"
          /\ readyPromise = "resolved"
          /\ ~embed.exists /\ embed'.exists
          /\ installCalls' = <<>>
          /\ embed'.renderStart = 0
          /\ installPromise' = "pending"]_vars

\* Reached: the back-reference is set, installExtensionsInChildWindow has not
\* been called yet.
C32_Witness ==
  /\ thenPc = "install"
  /\ getFriendlyIframeEmbedOptional(iframe) = "embed"
  /\ installCalls = <<>>
  /\ embed.renderStart = 0

\* C33: the output of mergeHtml is the original html with the <base> tag and
\* the font links placed at one position of it: taking that segment out
\* gives the original html back, character for character.
C33_OriginalKeptAroundOneSegment ==
  Merged =>
    /\ \E at \in 0..Len(spec.html) : mergedHtml = SplitAt(spec, at)
    /\ Len(mergedHtml) = Len(spec.html) + Len(Inserted(spec))

\* Reached: the html has a <head that no '>' follows, and a character that
\* grows under toUpperCase; the segment is placed first.
C33_Witness ==
  /\ Merged
  /\ TagAt(spec.html, TagHead) # -1
  /\ AfterTag(spec.html, TagHead) = -1
  /\ \E i \in 1..Len(spec.html) : spec.html[i] = SharpS
  /\ mergedHtml = Inserted(spec) \o spec.html

====
